---- MODULE Spec2Model ----
(***************************************************************************)
(* A model of the Maya auto rigger of src/src/AutoRigger.py: the marker    *)
(* catalogue (Markers), the skeleton builder (Skeleton), the FK, IK and    *)
(* FK/IK builders and the window (AutoRiggerGUI) that runs them in stages. *)
(*                                                                         *)
(* The Maya scene is a record: the kind of every node, the ordered list of *)
(* children of every DAG node (the parent of a node is the node that lists *)
(* it), the constraints, the attribute connections, the attribute values   *)
(* that differ from the default, and the position of the locators, joints  *)
(* and controllers.  Coordinates are kept in half units, so that the 149.5 *)
(* of the source is 299 here: every coordinate of the catalogue is a       *)
(* multiple of 0.5.                                                        *)
(***************************************************************************)
EXTENDS Integers, Sequences, FiniteSets, TLC

VARIABLES
    scene,  \* the Maya scene the cmds calls act on
    self,   \* the attributes set so far on the AutoRiggerGUI instance
    gui,    \* the state of the widgets (enabled, checked)
    call    \* the builder call in progress when a builder runs on its own;
            \* for the window, the exception of the last handler and the
            \* number of marker moves so far

vars == <<scene, self, gui, call>>

-----------------------------------------------------------------------------
(* Python strings.  A TLA+ string is atomic, so the names that the code    *)
(* takes apart (str.replace, str.endswith) are spelled out as sequences of *)
(* characters and joined again.                                            *)

Spell ==
    "root" :> <<"r", "o", "o", "t">> @@
    "pelvis" :> <<"p", "e", "l", "v", "i", "s">> @@
    "spine1" :> <<"s", "p", "i", "n", "e", "1">> @@
    "spine2" :> <<"s", "p", "i", "n", "e", "2">> @@
    "spine3" :> <<"s", "p", "i", "n", "e", "3">> @@
    "spine4" :> <<"s", "p", "i", "n", "e", "4">> @@
    "spine5" :> <<"s", "p", "i", "n", "e", "5">> @@
    "spine6" :> <<"s", "p", "i", "n", "e", "6">> @@
    "spine7" :> <<"s", "p", "i", "n", "e", "7">> @@
    "spine8" :> <<"s", "p", "i", "n", "e", "8">> @@
    "spine9" :> <<"s", "p", "i", "n", "e", "9">> @@
    "neck" :> <<"n", "e", "c", "k">> @@
    "head" :> <<"h", "e", "a", "d">> @@
    "clavicle_l" :> <<"c", "l", "a", "v", "i", "c", "l", "e", "_", "l">> @@
    "upperArm_l" :> <<"u", "p", "p", "e", "r", "A", "r", "m", "_", "l">> @@
    "lowerArm_l" :> <<"l", "o", "w", "e", "r", "A", "r", "m", "_", "l">> @@
    "hand_l" :> <<"h", "a", "n", "d", "_", "l">> @@
    "thumb1_l" :> <<"t", "h", "u", "m", "b", "1", "_", "l">> @@
    "thumb2_l" :> <<"t", "h", "u", "m", "b", "2", "_", "l">> @@
    "thumb3_l" :> <<"t", "h", "u", "m", "b", "3", "_", "l">> @@
    "index1_l" :> <<"i", "n", "d", "e", "x", "1", "_", "l">> @@
    "index2_l" :> <<"i", "n", "d", "e", "x", "2", "_", "l">> @@
    "index3_l" :> <<"i", "n", "d", "e", "x", "3", "_", "l">> @@
    "middle1_l" :> <<"m", "i", "d", "d", "l", "e", "1", "_", "l">> @@
    "middle2_l" :> <<"m", "i", "d", "d", "l", "e", "2", "_", "l">> @@
    "middle3_l" :> <<"m", "i", "d", "d", "l", "e", "3", "_", "l">> @@
    "thigh_l" :> <<"t", "h", "i", "g", "h", "_", "l">> @@
    "knee_l" :> <<"k", "n", "e", "e", "_", "l">> @@
    "foot_l" :> <<"f", "o", "o", "t", "_", "l">> @@
    "ball_l" :> <<"b", "a", "l", "l", "_", "l">> @@
    "toe_l" :> <<"t", "o", "e", "_", "l">> @@
    "clavicle_r" :> <<"c", "l", "a", "v", "i", "c", "l", "e", "_", "r">> @@
    "upperArm_r" :> <<"u", "p", "p", "e", "r", "A", "r", "m", "_", "r">> @@
    "lowerArm_r" :> <<"l", "o", "w", "e", "r", "A", "r", "m", "_", "r">> @@
    "hand_r" :> <<"h", "a", "n", "d", "_", "r">> @@
    "thumb1_r" :> <<"t", "h", "u", "m", "b", "1", "_", "r">> @@
    "thumb2_r" :> <<"t", "h", "u", "m", "b", "2", "_", "r">> @@
    "thumb3_r" :> <<"t", "h", "u", "m", "b", "3", "_", "r">> @@
    "index1_r" :> <<"i", "n", "d", "e", "x", "1", "_", "r">> @@
    "index2_r" :> <<"i", "n", "d", "e", "x", "2", "_", "r">> @@
    "index3_r" :> <<"i", "n", "d", "e", "x", "3", "_", "r">> @@
    "middle1_r" :> <<"m", "i", "d", "d", "l", "e", "1", "_", "r">> @@
    "middle2_r" :> <<"m", "i", "d", "d", "l", "e", "2", "_", "r">> @@
    "middle3_r" :> <<"m", "i", "d", "d", "l", "e", "3", "_", "r">> @@
    "thigh_r" :> <<"t", "h", "i", "g", "h", "_", "r">> @@
    "knee_r" :> <<"k", "n", "e", "e", "_", "r">> @@
    "foot_r" :> <<"f", "o", "o", "t", "_", "r">> @@
    "ball_r" :> <<"b", "a", "l", "l", "_", "r">> @@
    "toe_r" :> <<"t", "o", "e", "_", "r">>

RECURSIVE Str(_)
Str(cs) == IF cs = <<>> THEN "" ELSE Head(cs) \o Str(Tail(cs))

StartsWith(cs, pre) ==
    Len(cs) >= Len(pre) /\ SubSeq(cs, 1, Len(pre)) = pre

EndsWith(cs, suf) ==
    Len(cs) >= Len(suf) /\ SubSeq(cs, Len(cs) - Len(suf) + 1, Len(cs)) = suf

\* str.replace(old, new): every non-overlapping occurrence, left to right
RECURSIVE Replace(_, _, _)
Replace(cs, old, new) ==
    IF Len(cs) < Len(old) THEN cs
    ELSE IF StartsWith(cs, old)
         THEN new \o Replace(SubSeq(cs, Len(old) + 1, Len(cs)), old, new)
         ELSE <<Head(cs)>> \o Replace(Tail(cs), old, new)

SufL == <<"_", "l">>
SufR == <<"_", "r">>

\* Python's seq[a:b] for 0 <= a <= b, and seq[-k]
Slice(seq, a, b) == SubSeq(seq, a + 1, IF b < Len(seq) THEN b ELSE Len(seq))
SliceFrom(seq, a) == SubSeq(seq, a + 1, Len(seq))
FromEnd(seq, k) == seq[Len(seq) - k + 1]

Range(seq) == {seq[i] : i \in 1..Len(seq)}

Without(seq, x) ==
    LET keep(y) == y # x IN SelectSeq(seq, keep)

-----------------------------------------------------------------------------
(* class Markers: the catalogue *)

defaultBaseMarkers ==
    <<
       <<"root", <<0, 0, 0>>>>, <<"pelvis", <<0, 210, 0>>>>,
       <<"spine1", <<0, 250, 10>>>>, <<"spine2", <<0, 276, 5>>>>,
       <<"spine3", <<0, 300, -9>>>>, <<"neck", <<0, 317, -6>>>>,
       <<"head", <<0, 363, 2>>>>
    >>

defaultLeftMarkers ==
    <<
       <<"clavicle_l", <<28, 299, -9>>>>, <<"upperArm_l", <<47, 291, -9>>>>,
       <<"lowerArm_l", <<72, 258, -11>>>>, <<"hand_l", <<117, 220, 10>>>>,
       <<"thumb1_l", <<114, 212, 23>>>>, <<"thumb2_l", <<114, 209, 30>>>>,
       <<"thumb3_l", <<115, 204, 38>>>>, <<"index1_l", <<128, 206, 25>>>>,
       <<"index2_l", <<130, 196, 30>>>>, <<"index3_l", <<129, 189, 34>>>>,
       <<"middle1_l", <<130, 204, 18>>>>, <<"middle2_l", <<132, 193, 22>>>>,
       <<"middle3_l", <<124, 184, 25>>>>, <<"thigh_l", <<18, 190, 2>>>>,
       <<"knee_l", <<28, 110, 0>>>>, <<"foot_l", <<31, 31, -12>>>>,
       <<"ball_l", <<34, 7, 10>>>>, <<"toe_l", <<34, 7, 31>>>>
    >>

\* the mirror of one marker: name.replace('_l', '_r'), (-x, y, z)
MirrorNoNegate(m) ==
    <<Str(Replace(Spell[m[1]], SufL, SufR)), <<m[2][1], m[2][2], m[2][3]>>>>

MirrorMarker(m) ==
    <<Str(Replace(Spell[m[1]], SufL, SufR)), <<-m[2][1], m[2][2], m[2][3]>>>>

defaultRightMarkers ==
    [i \in 1..Len(defaultLeftMarkers) |-> MirrorMarker(defaultLeftMarkers[i])]

defaultSplineBaseMarkers ==
    <<
       <<"root", <<0, 0, 0>>>>, <<"pelvis", <<0, 210, 0>>>>,
       <<"spine1", <<0, 222, 3>>>>, <<"spine2", <<0, 234, 6>>>>,
       <<"spine3", <<0, 250, 10>>>>, <<"spine4", <<0, 258, 8>>>>,
       <<"spine5", <<0, 266, 6>>>>, <<"spine6", <<0, 276, 5>>>>,
       <<"spine7", <<0, 284, 1>>>>, <<"spine8", <<0, 292, -4>>>>,
       <<"spine9", <<0, 300, -9>>>>, <<"neck", <<0, 317, -6>>>>,
       <<"head", <<0, 363, 2>>>>
    >>

NamesOf(markers) == [i \in 1..Len(markers) |-> markers[i][1]]

-----------------------------------------------------------------------------
(* The Maya scene and the cmds calls the builders make on it.  A shape    *)
(* node is part of its transform here: no call of the program lists or     *)
(* moves a shape on its own.  kind and kids give the DAG, cons the targets *)
(* of every constraint node (a constraint is a child of the node it        *)
(* drives), conns the attribute connections <<<<node, attr>>, <<node,      *)
(* attr>>>>, attr the attribute values set by hand.                        *)

World == "|"
None == "None"
NoErr == ""

EmptyScene ==
    [kind  |-> <<>>,
     kids  |-> (World :> <<>>),
     pos   |-> <<>>,
     cons  |-> <<>>,
     conns |-> {},
     attr  |-> <<>>,
     clash |-> {}]

Nodes(s) == DOMAIN s.kind

\* TLC evaluates the arguments of an operator when they are first used: a
\* recursion that threads the scene tests Strict(s) first, so that every
\* step is evaluated before the next one starts
Strict(s) == s.kind = s.kind
Exists(s, n) == n \in DOMAIN s.kind
ParentOf(s, n) == CHOOSE p \in DOMAIN s.kids : n \in Range(s.kids[p])
Parents(s, n) == {p \in DOMAIN s.kids : n \in Range(s.kids[p])}

RECURSIVE Descendants(_, _)
Descendants(s, n) ==
    Range(s.kids[n]) \cup UNION {Descendants(s, k) : k \in Range(s.kids[n])}

Restrict(f, S) == [x \in S |-> f[x]]

\* F applied to the value of e, with e evaluated once
Bind(e, F(_)) == CHOOSE r \in {F(x) : x \in {e}} : TRUE

\* a new DAG node of kind k under p; a name already in use is recorded
AddNode(s, n, k, p) ==
    IF Exists(s, n) THEN [s EXCEPT !.clash = @ \cup {n}]
    ELSE [s EXCEPT !.kind = (n :> k) @@ @,
                   !.kids = (n :> <<>>) @@ [@ EXCEPT ![p] = Append(@, n)]]

\* cmds.delete(n): the node and everything below it
DeleteSet(s, gone) ==
    [s EXCEPT !.kind = Restrict(@, (DOMAIN @) \ gone),
              !.kids = [x \in (DOMAIN @) \ gone |-> LET live(y) == y \notin gone
                                                   IN SelectSeq(@[x], live)],
              !.pos  = Restrict(@, (DOMAIN @) \ gone),
              !.cons = Restrict(@, (DOMAIN @) \ gone),
              !.conns = {c \in @ : c[1][1] \notin gone /\ c[2][1] \notin gone},
              !.attr = Restrict(@, {a \in DOMAIN @ : a[1] \notin gone})]

Delete(s, n) ==
    Bind({n} \cup Descendants(s, n), LAMBDA gone : DeleteSet(s, gone))

\* a variant that leaves n under its old parent as well
ParentAlso(s, n, p) == [s EXCEPT !.kids[p] = Append(@, n)]

\* cmds.parent(n, p): n leaves its parent and becomes the last child of p
Parent(s, n, p) ==
    [s EXCEPT !.kids = [x \in DOMAIN @ |->
                          IF x = p THEN Append(Without(@[x], n), n)
                          ELSE Without(@[x], n)]]

SetPos(s, n, v) == [s EXCEPT !.pos = (n :> v) @@ @]

PosOf(s, n) == IF n \in DOMAIN s.pos THEN s.pos[n] ELSE <<0, 0, 0>>

\* a point constraint from target to n, deleted again: n and the nodes
\* below it sit where target is
Align(s, n, target) ==
    [s EXCEPT !.pos = [x \in {n} \cup Descendants(s, n) |-> PosOf(s, target)] @@ @]

\* a node that is not in the DAG (a utility node)
AddUtility(s, n, k) ==
    IF Exists(s, n) THEN [s EXCEPT !.clash = @ \cup {n}]
    ELSE [s EXCEPT !.kind = (n :> k) @@ @]

\* cmds.connectAttr(src, dst): dst has one incoming connection
Connect(s, srcNode, srcAttr, dstNode, dstAttr) ==
    [s EXCEPT !.conns = {c \in @ : c[2] # <<dstNode, dstAttr>>}
                        \cup {<<<<srcNode, srcAttr>>, <<dstNode, dstAttr>>>>}]

\* the value a new node has for an attribute
Default(a) ==
    IF a = "visibility" THEN 1 ELSE IF a \in {"sx", "sy", "sz"} THEN 100 ELSE 0

\* cmds.setAttr: attr holds the values that differ from the default
SetAttr(s, n, a, v) ==
    IF v = Default(a)
    THEN [s EXCEPT !.attr = Restrict(@, (DOMAIN @) \ {<<n, a>>})]
    ELSE [s EXCEPT !.attr = (<<n, a>> :> v) @@ @]

\* cmds.getAttr: what the incoming connection carries, or the value set, or
\* the default; a reverse node puts 1 - inputX on outputX
RECURSIVE GetAttr(_, _, _)
GetAttr(s, n, a) ==
    IF s.kind[n] = "reverse" /\ a = "outputX" THEN 1 - GetAttr(s, n, "inputX")
    ELSE IF \E c \in s.conns : c[2] = <<n, a>>
         THEN LET c == CHOOSE c \in s.conns : c[2] = <<n, a>>
              IN  GetAttr(s, c[1][1], c[1][2])
    ELSE IF <<n, a>> \in DOMAIN s.attr THEN s.attr[<<n, a>>]
    ELSE Default(a)

\* cmds.listRelatives(n, c=True, type='joint')
JointKids(s, n) ==
    LET isJoint(k) == s.kind[k] = "joint" IN SelectSeq(s.kids[n], isJoint)

Joints(s) == {n \in Nodes(s) : s.kind[n] = "joint"}
Locators(s) == {n \in Nodes(s) : s.kind[n] = "locator"}

\* the name Maya gives a new constraint on a node: <node>_<type><k>
RECURSIVE FreshFrom(_, _, _)
FreshFrom(s, base, k) ==
    IF ~Exists(s, base \o ToString(k)) THEN base \o ToString(k)
    ELSE FreshFrom(s, base, k + 1)

ConsName(s, type, driven) == FreshFrom(s, driven \o "_" \o type, 1)

\* cmds.<type>Constraint(targets..., driven)
AddConstraintNamed(s, c, type, targets, driven) ==
    [AddNode(s, c, type, driven)
        EXCEPT !.cons = (c :> [type |-> type, targets |-> targets,
                               driven |-> driven]) @@ @]

AddConstraint(s, type, targets, driven) ==
    Bind(ConsName(s, type, driven),
         LAMBDA c : AddConstraintNamed(s, c, type, targets, driven))

ConstraintsOn(s, n) == {c \in DOMAIN s.cons : s.cons[c].driven = n}

\* cmds.delete(n, cn=True): the constraints that drive n
DeleteConstraints(s, n) ==
    Bind(ConstraintsOn(s, n),
         LAMBDA cs : DeleteSet(s, cs \cup UNION {Descendants(s, c) : c \in cs}))

-----------------------------------------------------------------------------
(* Markers.createMarkers *)

RECURSIVE CreateLocators(_, _)
CreateLocators(s, markers) ==
    IF Strict(s) /\ markers = <<>> THEN s
    ELSE Bind(SetPos(AddNode(s, Head(markers)[1], "locator", World),
                     Head(markers)[1], Head(markers)[2]),
              LAMBDA s1 : CreateLocators(s1, Tail(markers)))

RECURSIVE ParentAll(_, _, _)
ParentAll(s, ns, p) ==
    IF Strict(s) /\ ns = <<>> THEN s ELSE ParentAll(Parent(s, Head(ns), p), Tail(ns), p)

MarkersGrp == "MarkersGrp"

createMarkers(s, markers) ==
    Bind(CreateLocators(s, markers),
         LAMBDA s1 : Bind(AddNode(s1, MarkersGrp, "transform", World),
         LAMBDA s2 : ParentAll(s2, NamesOf(markers), MarkersGrp)))

\* AutoRiggerGUI.updateMarkerData: the children of the group and their translation
markerNamesOf(s, grp) == s.kids[grp]
markerDataOf(s, grp) == [n \in Range(s.kids[grp]) |-> s.pos[n]]

-----------------------------------------------------------------------------
(* class Skeleton.  A builder runs on a record st = [scene, err, ret]: a    *)
(* call made after an exception (err # NoErr) does nothing, as the Python  *)
(* exception has left the function.                                        *)

Ok(s, r) == [scene |-> s, err |-> NoErr, ret |-> r]
Raise(st, e) == [scene |-> st.scene, err |-> e, ret |-> <<>>]

createJoint(s, jName, jParent, jPos) ==
    Bind(SetPos(AddNode(s, jName, "joint", World), jName, jPos),
         LAMBDA s1 : IF jParent # None THEN Parent(s1, jName, jParent) ELSE s1)

\* a variant that skips a name the marker data lacks
createJointFromMarkerSkip(st, markerName, markerData, jParent) ==
    IF st.err # NoErr THEN st
    ELSE IF markerName \notin DOMAIN markerData \/ ~Exists(st.scene, markerName)
         THEN Ok(st.scene, markerName)
    ELSE Ok(createJoint(Delete(st.scene, markerName), markerName, jParent,
                        markerData[markerName]),
            markerName)

\* a variant that removes the joints built so far when the name is missing
createJointFromMarkerUndo(st, markerName, markerData, jParent) ==
    IF st.err # NoErr THEN st
    ELSE IF markerName \notin DOMAIN markerData
         THEN Raise([st EXCEPT !.scene = DeleteSet(@, Joints(@))],
                    "KeyError: " \o markerName)
    ELSE IF ~Exists(st.scene, markerName)
         THEN Raise(st, "ValueError: " \o markerName)
    ELSE Ok(createJoint(Delete(st.scene, markerName), markerName, jParent,
                        markerData[markerName]),
            markerName)

\* a variant that creates the joint before it deletes the marker
createJointFromMarkerFirst(st, markerName, markerData, jParent) ==
    IF st.err # NoErr THEN st
    ELSE IF markerName \notin DOMAIN markerData
         THEN Raise(st, "KeyError: " \o markerName)
    ELSE IF ~Exists(st.scene, markerName)
         THEN Raise(st, "ValueError: " \o markerName)
    ELSE Ok(Delete(createJoint(st.scene, markerName, jParent, markerData[markerName]),
                   markerName),
            markerName)

createJointFromMarker(st, markerName, markerData, jParent) ==
    IF st.err # NoErr THEN st
    ELSE IF markerName \notin DOMAIN markerData
         THEN Raise(st, "KeyError: " \o markerName)
    ELSE IF ~Exists(st.scene, markerName)
         THEN Raise(st, "ValueError: " \o markerName)
    ELSE Ok(createJoint(Delete(st.scene, markerName), markerName, jParent,
                        markerData[markerName]),
            markerName)

RECURSIVE ChainFrom(_, _, _, _, _)
ChainFrom(st, markerNames, markerData, parent, chain) ==
    IF st.err # NoErr THEN st
    ELSE IF markerNames = <<>> THEN [st EXCEPT !.ret = chain]
    ELSE Bind(createJointFromMarker(st, Head(markerNames), markerData, parent),
              LAMBDA st1 : ChainFrom(st1, Tail(markerNames), markerData, st1.ret,
                                     Append(chain, st1.ret)))

\* a variant that never advances the parent along the chain
RECURSIVE ChainFlat(_, _, _, _, _)
ChainFlat(st, markerNames, markerData, parent, chain) ==
    IF st.err # NoErr THEN st
    ELSE IF markerNames = <<>> THEN [st EXCEPT !.ret = chain]
    ELSE Bind(createJointFromMarker(st, Head(markerNames), markerData, parent),
              LAMBDA st1 : ChainFlat(st1, Tail(markerNames), markerData, parent,
                                     Append(chain, st1.ret)))

createJointChainFromMarkersFlat(st, markerNames, markerData, jParent) ==
    ChainFlat(st, markerNames, markerData, jParent, <<>>)

createJointChainFromMarkers(st, markerNames, markerData, jParent) ==
    ChainFrom(st, markerNames, markerData, jParent, <<>>)

\* where createSkeleton hangs the arm chains: spineJs[-3]
ArmAttachTop(spineJs) == FromEnd(spineJs, 1)
ArmAttach(spineJs) == FromEnd(spineJs, 3)

createSkeleton(s, markerData, splineSpine) ==
    LET baseMarkers == IF splineSpine THEN NamesOf(defaultSplineBaseMarkers)
                       ELSE NamesOf(defaultBaseMarkers)
        leftSideMarkers == NamesOf(defaultLeftMarkers)
        rightSideMarkers == NamesOf(defaultRightMarkers)
    IN
    Bind(createJointFromMarker(Ok(s, <<>>), "root", markerData, None),
    LAMBDA rootJ :
    Bind(createJointFromMarker(rootJ, "pelvis", markerData, rootJ.ret),
    LAMBDA pelvisJ :
    Bind(createJointChainFromMarkers(pelvisJ, SliceFrom(baseMarkers, 2),
                                     markerData, pelvisJ.ret),
    LAMBDA spineJs :
    Bind(createJointChainFromMarkers(spineJs, Slice(leftSideMarkers, 0, 4),
                                     markerData, ArmAttach(spineJs.ret)),
    LAMBDA leftArmJs :
    Bind(createJointChainFromMarkers(leftArmJs, Slice(leftSideMarkers, 4, 7),
                                     markerData, FromEnd(leftArmJs.ret, 1)),
    LAMBDA leftThumbJs :
    Bind(createJointChainFromMarkers(leftThumbJs, Slice(leftSideMarkers, 7, 10),
                                     markerData, FromEnd(leftArmJs.ret, 1)),
    LAMBDA leftIndexJs :
    Bind(createJointChainFromMarkers(leftIndexJs, Slice(leftSideMarkers, 10, 13),
                                     markerData, FromEnd(leftArmJs.ret, 1)),
    LAMBDA leftMiddleJs :
    Bind(createJointChainFromMarkers(leftMiddleJs, SliceFrom(leftSideMarkers, 13),
                                     markerData, pelvisJ.ret),
    LAMBDA leftLegJs :
    Bind(createJointChainFromMarkers(leftLegJs, Slice(rightSideMarkers, 0, 4),
                                     markerData, ArmAttach(spineJs.ret)),
    LAMBDA rightArmJs :
    Bind(createJointChainFromMarkers(rightArmJs, Slice(rightSideMarkers, 4, 7),
                                     markerData, FromEnd(rightArmJs.ret, 1)),
    LAMBDA rightThumbJs :
    Bind(createJointChainFromMarkers(rightThumbJs, Slice(rightSideMarkers, 7, 10),
                                     markerData, FromEnd(rightArmJs.ret, 1)),
    LAMBDA rightIndexJs :
    Bind(createJointChainFromMarkers(rightIndexJs, Slice(rightSideMarkers, 10, 13),
                                     markerData, FromEnd(rightArmJs.ret, 1)),
    LAMBDA rightMiddleJs :
    Bind(createJointChainFromMarkers(rightMiddleJs, SliceFrom(rightSideMarkers, 13),
                                     markerData, pelvisJ.ret),
    LAMBDA rightLegJs :
        IF rightLegJs.err # NoErr THEN Raise(rightLegJs, rightLegJs.err)
        ELSE Ok(rightLegJs.scene,
                <<rootJ.ret, pelvisJ.ret, spineJs.ret, leftArmJs.ret, leftThumbJs.ret,
                  leftIndexJs.ret, leftMiddleJs.ret, leftLegJs.ret, rightArmJs.ret,
                  rightThumbJs.ret, rightIndexJs.ret, rightMiddleJs.ret,
                  rightLegJs.ret>>))))))))))))))
-----------------------------------------------------------------------------
(* Transforms.  pos is where a node sits in the rest pose (every rotation  *)
(* zero), in world axes; the rotate attributes rx, ry, rz are kept in      *)
(* quarter turns, so that 90 degrees is 1, and a rotation takes the        *)
(* integer grid to itself.  The rotate order is Maya's default, xyz.  A    *)
(* rotation matrix is the triple of the images of the three axes.          *)

VAdd(a, b) == <<a[1] + b[1], a[2] + b[2], a[3] + b[3]>>
VSub(a, b) == <<a[1] - b[1], a[2] - b[2], a[3] - b[3]>>

\* a quarter turn about the axis
Turn(v, axis) ==
    IF axis = 1 THEN <<v[1], -v[3], v[2]>>
    ELSE IF axis = 2 THEN <<v[3], v[2], -v[1]>>
    ELSE <<-v[2], v[1], v[3]>>

RECURSIVE Turns(_, _, _)
Turns(v, axis, k) ==
    IF k % 4 = 0 THEN v ELSE Turns(Turn(v, axis), axis, (k % 4) - 1)

Euler(r, v) == Turns(Turns(Turns(v, 1, r[1]), 2, r[2]), 3, r[3])

Identity == <<<<1, 0, 0>>, <<0, 1, 0>>, <<0, 0, 1>>>>
Matrix(r) == <<Euler(r, Identity[1]), Euler(r, Identity[2]), Euler(r, Identity[3])>>
MApply(M, v) ==
    <<v[1] * M[1][1] + v[2] * M[2][1] + v[3] * M[3][1],
      v[1] * M[1][2] + v[2] * M[2][2] + v[3] * M[3][2],
      v[1] * M[1][3] + v[2] * M[2][3] + v[3] * M[3][3]>>
MTimes(A, B) == <<MApply(A, B[1]), MApply(A, B[2]), MApply(A, B[3])>>
Transpose(M) ==
    <<<<M[1][1], M[2][1], M[3][1]>>, <<M[1][2], M[2][2], M[3][2]>>,
      <<M[1][3], M[2][3], M[3][3]>>>>

Eulers == (0..3) \X (0..3) \X (0..3)
EulerOf(M) == CHOOSE r \in Eulers : Matrix(r) = M

RotOf(s, n) == <<GetAttr(s, n, "rx"), GetAttr(s, n, "ry"), GetAttr(s, n, "rz")>>
SetRot(s, n, r) == SetAttr(SetAttr(SetAttr(s, n, "rx", r[1]), n, "ry", r[2]), n, "rz", r[3])

\* no rotate attribute of the scene is off its default: the rest pose
Unturned(s) == \A k \in DOMAIN s.attr : k[2] \notin {"rx", "ry", "rz"}

\* cmds.xform(n, q=True, ws=True, ...): the world position and rotation of
\* n under the rotations of n and of the nodes above it; in the rest pose
\* that is pos, unturned
RECURSIVE WorldOf(_, _)
WorldOf(s, n) ==
    IF n = World THEN [pos |-> <<0, 0, 0>>, rot |-> Identity]
    ELSE IF Unturned(s) THEN [pos |-> PosOf(s, n), rot |-> Identity]
    ELSE Bind(ParentOf(s, n), LAMBDA p :
         Bind(WorldOf(s, p), LAMBDA w :
         [pos |-> VAdd(w.pos, MApply(w.rot, VSub(PosOf(s, n), PosOf(s, p)))),
          rot |-> MTimes(w.rot, Matrix(RotOf(s, n)))]))

WorldPos(s, n) == WorldOf(s, n).pos
WorldRot(s, n) == WorldOf(s, n).rot

\* n and the nodes below it shifted in the rest pose
Shift(s, n, d) ==
    [s EXCEPT !.pos = [x \in ({n} \cup Descendants(s, n)) \cap DOMAIN s.pos |->
                          VAdd(s.pos[x], d)] @@ (n :> d) @@ @]

\* cmds.move(x, y, z, n): n goes to the world position v
MoveTo(s, n, v) ==
    Bind(WorldOf(s, n), LAMBDA w :
    Bind(WorldOf(s, ParentOf(s, n)), LAMBDA up :
    Shift(s, n, MApply(Transpose(up.rot), VSub(v, w.pos)))))

\* n takes the world rotation R
RotateTo(s, n, R) ==
    Bind(WorldOf(s, ParentOf(s, n)), LAMBDA up :
    SetRot(s, n, EulerOf(MTimes(Transpose(up.rot), R))))

\* cmds.matchTransform(n, target, pos=True, rot=True)
matchTransform(s, n, target) ==
    Bind(WorldOf(s, target), LAMBDA t : RotateTo(MoveTo(s, n, t.pos), n, t.rot))

-----------------------------------------------------------------------------
(* class FK *)

Ctrl(jName) == "ctrl_" \o jName
CtrlParent(jName) == "ctrl_" \o jName \o "_parent"

\* a variant that names the offset node of the parent's controller
pControllerOffset(pName) == CtrlParent(pName)

\* pController = 'ctrl_' + pName
pController(pName) == Ctrl(pName)

createFKController(st, jName, pName) ==
    IF st.err # NoErr THEN st
    ELSE
    Bind(AddNode(st.scene, Ctrl(jName), "circle", World), LAMBDA s1 :
    Bind(AddNode(s1, CtrlParent(jName), "transform", World), LAMBDA s2 :
    Bind(Parent(s2, Ctrl(jName), CtrlParent(jName)), LAMBDA s3 :
    IF ~Exists(s3, jName) THEN Raise(Ok(s3, <<>>), "ValueError: " \o jName)
    ELSE
    Bind(AddConstraint(s3, "pointConstraint", <<jName>>, CtrlParent(jName)), LAMBDA s4 :
    Bind(AddConstraint(s4, "orientConstraint", <<jName>>, CtrlParent(jName)), LAMBDA s5 :
    Bind(Align(DeleteConstraints(s5, CtrlParent(jName)), CtrlParent(jName), jName),
         LAMBDA s6 :
    Bind(AddConstraint(s6, "parentConstraint", <<Ctrl(jName)>>, jName), LAMBDA s7 :
    IF pName = None THEN Ok(s7, Ctrl(jName))
    ELSE IF ~Exists(s7, pController(pName))
         THEN Raise(Ok(s7, <<>>), "ValueError: " \o pController(pName))
    ELSE Ok(Parent(s7, CtrlParent(jName), pController(pName)), Ctrl(jName)))))))))

(* createFKCharacterControllers is recursive.  Its run is a stack of the   *)
(* calls still to be made, <<rootJoint, parent>>, the next one first: a    *)
(* call creates the controller of its joint and, unless the joint is       *)
(* endJoint, makes one call per child joint, in order, before it returns   *)
(* to its caller, so the calls for the children go on top of the stack.    *)

FKStart(s, rootJoint, parent, endJoint) ==
    [scene |-> s, err |-> NoErr, stack |-> <<<<rootJoint, parent>>>>,
     controllers |-> <<>>, endJoint |-> endJoint]

\* a variant that never looks at endJoint
FKStepNoEnd(f) ==
    Bind(createFKController(Ok(f.scene, <<>>), Head(f.stack)[1], Head(f.stack)[2]),
    LAMBDA st :
    LET rootJoint == Head(f.stack)[1]
        kids == JointKids(st.scene, rootJoint)
    IN  IF st.err # NoErr
        THEN [f EXCEPT !.scene = st.scene, !.err = st.err, !.stack = <<>>]
        ELSE [f EXCEPT !.scene = st.scene,
                       !.controllers = Append(@, st.ret),
                       !.stack = [i \in 1..Len(kids) |-> <<kids[i], rootJoint>>]
                                 \o Tail(@)])

\* a variant that makes the calls for the children after every pending call
FKStepBreadth(f) ==
    Bind(createFKController(Ok(f.scene, <<>>), Head(f.stack)[1], Head(f.stack)[2]),
    LAMBDA st :
    LET rootJoint == Head(f.stack)[1]
        kids == JointKids(st.scene, rootJoint)
    IN  IF st.err # NoErr
        THEN [f EXCEPT !.scene = st.scene, !.err = st.err, !.stack = <<>>]
        ELSE [f EXCEPT !.scene = st.scene,
                       !.controllers = Append(@, st.ret),
                       !.stack = IF f.endJoint # None /\ rootJoint = f.endJoint
                                 THEN Tail(@)
                                 ELSE Tail(@) \o
                                      [i \in 1..Len(kids) |-> <<kids[i], rootJoint>>]])

\* one call of createFKCharacterControllers, up to its recursive calls
FKStep(f) ==
    Bind(createFKController(Ok(f.scene, <<>>), Head(f.stack)[1], Head(f.stack)[2]),
    LAMBDA st :
    LET rootJoint == Head(f.stack)[1]
        kids == JointKids(st.scene, rootJoint)
    IN  IF st.err # NoErr
        THEN [f EXCEPT !.scene = st.scene, !.err = st.err, !.stack = <<>>]
        ELSE [f EXCEPT !.scene = st.scene,
                       !.controllers = Append(@, st.ret),
                       !.stack = IF f.endJoint # None /\ rootJoint = f.endJoint
                                 THEN Tail(@)
                                 ELSE [i \in 1..Len(kids) |-> <<kids[i], rootJoint>>]
                                      \o Tail(@)])

RECURSIVE FKRun(_)
FKRun(f) == IF f.stack = <<>> THEN f ELSE FKRun(FKStep(f))

createFKCharacterControllers(st, rootJoint, parent, endJoint) ==
    IF st.err # NoErr THEN st
    ELSE LET f == FKRun(FKStart(st.scene, rootJoint, parent, endJoint))
         IN  IF f.err # NoErr THEN Raise(Ok(f.scene, <<>>), f.err)
             ELSE Ok(f.scene, f.controllers)

-----------------------------------------------------------------------------
(* class IK *)

\* cmds.ikHandle(sj, ee, n): the handle, and the effector under the joint
\* before the end joint
createIKHandle(st, startJoint, endEffector, name) ==
    IF st.err # NoErr THEN st
    ELSE IF ~Exists(st.scene, startJoint) THEN Raise(st, "ValueError: " \o startJoint)
    ELSE IF ~Exists(st.scene, endEffector) THEN Raise(st, "ValueError: " \o endEffector)
    ELSE
    Bind(AddNode(st.scene, name, "ikHandle", World), LAMBDA s1 :
    Bind(FreshFrom(s1, "effector", 1), LAMBDA effector :
    Bind(AddNode(s1, effector, "ikEffector", ParentOf(s1, endEffector)), LAMBDA s2 :
    Ok([s2 EXCEPT !.cons = (name :> [type |-> "ikRPsolver",
                                     targets |-> <<startJoint, endEffector>>,
                                     driven |-> name]) @@ @],
       <<name, effector>>))))

createPoleVectorConstraint(st, ikHandle, parent, joint, name) ==
    IF st.err # NoErr THEN st
    ELSE
    Bind(AddNode(st.scene, Ctrl(name), "circle", World), LAMBDA s1 :
    IF ~Exists(s1, joint) THEN Raise(Ok(s1, <<>>), "ValueError: " \o joint)
    ELSE
    Bind(AddConstraint(s1, "pointConstraint", <<joint>>, Ctrl(name)), LAMBDA s2 :
    Bind(Align(DeleteConstraints(s2, Ctrl(name)), Ctrl(name), joint), LAMBDA s3 :
    IF ~Exists(s3, ikHandle) THEN Raise(Ok(s3, <<>>), "ValueError: " \o ikHandle)
    ELSE
    Bind(AddConstraint(s3, "poleVectorConstraint", <<Ctrl(name)>>, ikHandle), LAMBDA s4 :
    IF ~Exists(s4, parent) THEN Raise(Ok(s4, <<>>), "ValueError: " \o parent)
    ELSE Ok(Parent(s4, Ctrl(name), parent), Ctrl(name))))))

createStartJointController(st, joint, parent, child, name) ==
    IF st.err # NoErr THEN st
    ELSE
    Bind(AddNode(st.scene, Ctrl(name), "circle", World), LAMBDA s1 :
    IF ~Exists(s1, child) THEN Raise(Ok(s1, <<>>), "ValueError: " \o child)
    ELSE
    Bind(AddConstraint(s1, "pointConstraint", <<child>>, Ctrl(name)), LAMBDA s2 :
    Bind(Align(DeleteConstraints(s2, Ctrl(name)), Ctrl(name), child), LAMBDA s3 :
    IF ~Exists(s3, parent) THEN Raise(Ok(s3, <<>>), "ValueError: " \o parent)
    ELSE
    Bind(Parent(s3, Ctrl(name), parent), LAMBDA s4 :
    IF ~Exists(s4, joint) THEN Raise(Ok(s4, <<>>), "ValueError: " \o joint)
    ELSE Ok(AddConstraint(s4, "aimConstraint", <<Ctrl(name)>>, joint), Ctrl(name))))))

createIKController(st, ikHandle, joint, parent, name) ==
    IF st.err # NoErr THEN st
    ELSE
    Bind(AddNode(st.scene, Ctrl(name), "circle", World), LAMBDA s1 :
    Bind(AddNode(s1, CtrlParent(name), "transform", World), LAMBDA s2 :
    Bind(Parent(s2, Ctrl(name), CtrlParent(name)), LAMBDA s3 :
    IF ~Exists(s3, joint) THEN Raise(Ok(s3, <<>>), "ValueError: " \o joint)
    ELSE
    Bind(AddConstraint(s3, "pointConstraint", <<joint>>, CtrlParent(name)), LAMBDA s4 :
    Bind(AddConstraint(s4, "orientConstraint", <<joint>>, CtrlParent(name)), LAMBDA s5 :
    Bind(Align(DeleteConstraints(s5, CtrlParent(name)), CtrlParent(name), joint),
         LAMBDA s6 :
    IF ~Exists(s6, ikHandle) THEN Raise(Ok(s6, <<>>), "ValueError: " \o ikHandle)
    ELSE
    Bind(AddConstraint(s6, "pointConstraint", <<Ctrl(name)>>, ikHandle), LAMBDA s7 :
    Bind(AddConstraint(s7, "orientConstraint", <<Ctrl(name)>>, joint), LAMBDA s8 :
    IF ~Exists(s8, parent) THEN Raise(Ok(s8, <<>>), "ValueError: " \o parent)
    ELSE Ok(Parent(s8, CtrlParent(name), parent), Ctrl(name))))))))))

\* Helpers.makeCircleControls
makeCircleControls(st, joint, ctrlName) ==
    IF st.err # NoErr THEN st
    ELSE
    Bind(AddNode(st.scene, ctrlName, "circle", World), LAMBDA s1 :
    IF ~Exists(s1, joint) THEN Raise(Ok(s1, <<>>), "ValueError: " \o joint)
    ELSE
    Bind(AddConstraint(s1, "pointConstraint", <<joint>>, ctrlName), LAMBDA s2 :
    Ok(Align(DeleteConstraints(s2, ctrlName), ctrlName, joint), ctrlName)))

\* the spline handle, its effector under the joint before endJ, its curve
SplineHandle(st, startJ, endJ, name) ==
    IF st.err # NoErr THEN st
    ELSE IF ~Exists(st.scene, startJ) THEN Raise(st, "ValueError: " \o startJ)
    ELSE IF ~Exists(st.scene, endJ) THEN Raise(st, "ValueError: " \o endJ)
    ELSE
    Bind(AddNode(st.scene, name, "ikHandle", World), LAMBDA s1 :
    Bind(AddNode(s1, name \o "_effector", "ikEffector", ParentOf(s1, endJ)), LAMBDA s2 :
    Bind(AddNode(s2, name \o "_curve", "curve", World), LAMBDA s3 :
    Ok([s3 EXCEPT !.cons = (name :> [type |-> "ikSplineSolver",
                                     targets |-> <<startJ, endJ>>,
                                     driven |-> name]) @@ @],
       <<name, name \o "_effector", name \o "_curve">>))))

createSplineSpineIK(st, startJ, middleJ, endJ, name) ==
    Bind(SplineHandle(st, startJ, endJ, name), LAMBDA h :
    IF h.err # NoErr THEN h
    ELSE
    Bind(AddNode(h.scene, name \o "_lowerClusterHandle", "cluster", World), LAMBDA s1 :
    Bind(AddNode(s1, name \o "_upperClusterHandle", "cluster", World), LAMBDA s2 :
    Bind(makeCircleControls(Ok(s2, <<>>), startJ, name \o "_lowerCtrl"), LAMBDA lowerCtrl :
    Bind(makeCircleControls(lowerCtrl, endJ, name \o "_upperCtrl"), LAMBDA upperCtrl :
    Bind(makeCircleControls(upperCtrl, startJ, name \o "_bodyCtrl"), LAMBDA bodyCtrl :
    Bind(makeCircleControls(bodyCtrl, middleJ, name \o "_middleCtrl"), LAMBDA middleCtrl :
    IF middleCtrl.err # NoErr THEN middleCtrl
    ELSE
    Bind(Parent(middleCtrl.scene, name \o "_upperClusterHandle", upperCtrl.ret), LAMBDA s3 :
    Bind(Parent(s3, name \o "_lowerClusterHandle", lowerCtrl.ret), LAMBDA s4 :
    Bind(Parent(s4, lowerCtrl.ret, bodyCtrl.ret), LAMBDA s5 :
    Bind(Parent(s5, upperCtrl.ret, middleCtrl.ret), LAMBDA s6 :
    Bind(Parent(s6, middleCtrl.ret, bodyCtrl.ret), LAMBDA s7 :
    Bind(AddConstraint(s7, "parentConstraint", <<lowerCtrl.ret>>, startJ), LAMBDA s8 :
    Bind(AddConstraint(s8, "parentConstraint", <<upperCtrl.ret>>, endJ), LAMBDA s9 :
    Bind(AddNode(s9, name \o "_grp", "transform", World), LAMBDA s10 :
    Bind(Parent(Parent(s10, h.ret[1], name \o "_grp"), h.ret[3], name \o "_grp"),
         LAMBDA s11 :
    Bind(Parent(s11, bodyCtrl.ret, name \o "_grp"), LAMBDA s12 :
    Ok(Connect(s12, upperCtrl.ret, "rotateY", h.ret[1], "twist"),
       <<bodyCtrl.ret, middleCtrl.ret, lowerCtrl.ret, upperCtrl.ret,
         name \o "_grp">>))))))))))))))))))

-----------------------------------------------------------------------------
(* class FKIK *)

\* cmds.duplicate(joint, po=True, n=...): the copy is a sibling of the joint
RECURSIVE DuplicateEach(_, _, _, _)
DuplicateEach(st, jointChain, prefix, dupChain) ==
    IF st.err # NoErr THEN st
    ELSE IF jointChain = <<>> THEN Ok(st.scene, dupChain)
    ELSE
    Bind(Head(jointChain), LAMBDA joint :
    IF ~Exists(st.scene, joint) THEN Raise(st, "ValueError: " \o joint)
    ELSE
    Bind(AddNode(st.scene, prefix \o "_" \o joint, "joint", ParentOf(st.scene, joint)),
         LAMBDA s1 :
    DuplicateEach(Ok(SetPos(s1, prefix \o "_" \o joint, PosOf(s1, joint)), <<>>),
                  Tail(jointChain), prefix, Append(dupChain, prefix \o "_" \o joint))))

RECURSIVE LinkChain(_, _, _)
LinkChain(s, dupChain, i) ==
    IF Strict(s) /\ i > Len(dupChain) - 1 THEN s
    ELSE LinkChain(Parent(s, dupChain[i + 1], dupChain[i]), dupChain, i + 1)

\* a variant that leaves the copies where cmds.duplicate puts them
duplicateChainApart(st, jointChain, prefix) == DuplicateEach(st, jointChain, prefix, <<>>)

duplicateChain(st, jointChain, prefix) ==
    Bind(DuplicateEach(st, jointChain, prefix, <<>>), LAMBDA d :
    IF d.err # NoErr THEN d
    ELSE Ok(LinkChain(d.scene, d.ret, 1), d.ret))

\* chain[k] for Python's 0-based k
At(chain, k) == chain[k + 1]
Last(chain) == chain[Len(chain)]

createFKIKAccessories(st, jointChain, prefix, fkParent, ikParent, ikStartParent, ikOffset) ==
    Bind(duplicateChain(st, jointChain, "fk_" \o prefix), LAMBDA fkChain :
    Bind(duplicateChain(fkChain, jointChain, "ik_" \o prefix), LAMBDA ikChain :
    IF ikChain.err # NoErr THEN ikChain
    ELSE
    Bind(createFKCharacterControllers(ikChain, At(fkChain.ret, 0), None,
                                      Last(fkChain.ret)), LAMBDA fkCntrls :
    IF fkCntrls.err # NoErr THEN fkCntrls
    ELSE IF ~Exists(fkCntrls.scene, fkParent)
         THEN Raise(fkCntrls, "ValueError: " \o fkParent)
    ELSE
    Bind(Ok(Parent(fkCntrls.scene, At(fkCntrls.ret, 0) \o "_parent", fkParent), <<>>),
         LAMBDA p :
    Bind(createStartJointController(p, At(ikChain.ret, 0), ikStartParent,
                                    At(ikChain.ret, ikOffset), prefix \o "_start_ik"),
         LAMBDA startCntrl :
    Bind(createIKHandle(startCntrl, At(ikChain.ret, ikOffset), Last(ikChain.ret),
                        prefix \o "_ik"), LAMBDA ikHandle :
    IF ikHandle.err # NoErr THEN ikHandle
    ELSE
    Bind(createIKController(ikHandle, ikHandle.ret[1], Last(ikChain.ret), ikParent,
                            prefix \o "_ik"), LAMBDA ikCntrl :
    IF ikCntrl.err # NoErr THEN ikCntrl
    ELSE
    Bind(ParentOf(ikCntrl.scene, Last(ikChain.ret)), LAMBDA pvJoint :
    Bind(createPoleVectorConstraint(ikCntrl, ikHandle.ret[1], ikParent, pvJoint,
                                    prefix \o "_pv"), LAMBDA pvCntrl :
    IF pvCntrl.err # NoErr THEN pvCntrl
    ELSE Ok(pvCntrl.scene,
            <<fkChain.ret, ikChain.ret, fkCntrls.ret, startCntrl.ret, ikCntrl.ret,
              pvCntrl.ret>>))))))))))

Switch == "FKIK_Switch"

\* a variant that drives both weights from the switch itself
SwitchJointNoReverse(s, switchCtrl, fk, ik, b) ==
    Bind(ConsName(s, "orientConstraint", b), LAMBDA oc :
    Bind(AddConstraintNamed(s, oc, "orientConstraint", <<fk, ik>>, b), LAMBDA s1 :
    Bind(Connect(s1, switchCtrl, Switch, oc, "w1"), LAMBDA s2 :
    Bind(AddUtility(s2, "reverse_" \o b, "reverse"), LAMBDA s3 :
    Bind(Connect(s3, switchCtrl, Switch, "reverse_" \o b, "inputX"), LAMBDA s4 :
    Connect(s4, switchCtrl, Switch, oc, "w0"))))))

\* the body of the loop over zip(fkChain, ikChain, bindChain)
SwitchJoint(s, switchCtrl, fk, ik, b) ==
    Bind(ConsName(s, "orientConstraint", b), LAMBDA oc :
    Bind(AddConstraintNamed(s, oc, "orientConstraint", <<fk, ik>>, b), LAMBDA s1 :
    Bind(Connect(s1, switchCtrl, Switch, oc, "w1"), LAMBDA s2 :
    Bind(AddUtility(s2, "reverse_" \o b, "reverse"), LAMBDA s3 :
    Bind(Connect(s3, switchCtrl, Switch, "reverse_" \o b, "inputX"), LAMBDA s4 :
    Connect(s4, "reverse_" \o b, "outputX", oc, "w0"))))))

Min(a, b) == IF a < b THEN a ELSE b

RECURSIVE SwitchJoints(_, _, _, _, _, _)
SwitchJoints(s, switchCtrl, fkChain, ikChain, bindChain, i) ==
    IF Strict(s) /\ i > Min(Len(fkChain), Min(Len(ikChain), Len(bindChain))) THEN s
    ELSE SwitchJoints(SwitchJoint(s, switchCtrl, fkChain[i], ikChain[i], bindChain[i]),
                      switchCtrl, fkChain, ikChain, bindChain, i + 1)

RECURSIVE ConnectEach(_, _, _, _, _)
ConnectEach(s, srcNode, srcAttr, dstNodes, dstAttr) ==
    IF Strict(s) /\ dstNodes = <<>> THEN s
    ELSE ConnectEach(Connect(s, srcNode, srcAttr, Head(dstNodes), dstAttr),
                     srcNode, srcAttr, Tail(dstNodes), dstAttr)

\* a variant that shows the FK controllers with the IK ones
FKVisibilitySourceSwitch(switchName) == <<switchName, Switch>>

\* what drives the visibility of the FK controllers: the reverse of the switch
FKVisibilitySource(switchName) == <<switchName \o "_reverseVis", "outputX">>

createFKIKSwitch(st, fkChain, ikChain, bindChain, fkCntrls, startCntrl, ikCntrl, pvCntrl, switchName) ==
    IF st.err # NoErr THEN st
    ELSE
    Bind(AddNode(st.scene, switchName, "circle", World), LAMBDA s1 :
    Bind(AddConstraint(s1, "parentConstraint", <<Last(bindChain)>>, switchName),
         LAMBDA s2 :
    Bind(Align(DeleteConstraints(s2, switchName), switchName, Last(bindChain)),
         LAMBDA s3 :
    Bind(SetAttr(s3, switchName, Switch, 0), LAMBDA s4 :
    Bind(SwitchJoints(s4, switchName, fkChain, ikChain, bindChain, 1), LAMBDA s5 :
    Bind(AddUtility(s5, switchName \o "_reverseVis", "reverse"), LAMBDA s6 :
    Bind(Connect(s6, switchName, Switch, switchName \o "_reverseVis", "inputX"),
         LAMBDA s7 :
    Bind(ConnectEach(s7, FKVisibilitySource(switchName)[1],
                     FKVisibilitySource(switchName)[2], fkCntrls, "visibility"),
         LAMBDA s8 :
    Bind(ConnectEach(s8, switchName, Switch, <<startCntrl, ikCntrl, pvCntrl>>,
                     "visibility"), LAMBDA s9 :
    Ok(s9, switchName))))))))))

\* a variant that leaves rz alone
CopyRotateXY(s, fk, ik) ==
    SetAttr(SetAttr(s, fk, "rx", GetAttr(s, ik, "rx")), fk, "ry", GetAttr(s, ik, "ry"))

\* the loop over ['rx', 'ry', 'rz'] for one pair
CopyRotate(s, fk, ik) ==
    SetAttr(SetAttr(SetAttr(s, fk, "rx", GetAttr(s, ik, "rx")),
                    fk, "ry", GetAttr(s, ik, "ry")),
            fk, "rz", GetAttr(s, ik, "rz"))

RECURSIVE snapFKtoIKFrom(_, _, _, _)
snapFKtoIKFrom(s, fkControls, ikJoints, i) ==
    IF Strict(s) /\ i > Min(Len(fkControls), Len(ikJoints)) THEN s
    ELSE snapFKtoIKFrom(CopyRotate(s, fkControls[i], ikJoints[i]),
                        fkControls, ikJoints, i + 1)

\* a variant that leaves the first controller as it is
snapFKtoIKTail(s, fkControls, ikJoints) == snapFKtoIKFrom(s, fkControls, ikJoints, 2)

snapFKtoIK(s, fkControls, ikJoints) == snapFKtoIKFrom(s, fkControls, ikJoints, 1)

\* the three list comprehensions of snapIKtoFK.  The mean is kept doubled
\* (meanPos2 = initPos + finPos) and so is the direction (dir2 = 2 * dir),
\* which keeps the halves of the source whole: pvPos = midPos + dir * 2
\* a variant that takes the mean of initPos with itself
meanPos2Init(initPos, finPos) == VAdd(initPos, initPos)

meanPos2(initPos, finPos) == VAdd(initPos, finPos)
\* a variant that points from the mid joint to the mean
dir2ToMean(midPos, mean2) == VSub(mean2, VAdd(midPos, midPos))

dir2(midPos, mean2) == VSub(VAdd(midPos, midPos), mean2)

\* a variant that goes out four times dir
pvPosFar(midPos, d2) == VAdd(midPos, VAdd(d2, d2))

pvPos(midPos, d2) == VAdd(midPos, d2)

snapIKtoFK(s, fkControls, ikControls, ikHandle, ikPv, offset) ==
    Bind(matchTransform(s, ikHandle, Last(fkControls)), LAMBDA s1 :
    Bind(WorldPos(s1, At(fkControls, 0 + offset)), LAMBDA initPos :
    Bind(WorldPos(s1, At(fkControls, 1 + offset)), LAMBDA midPos :
    Bind(WorldPos(s1, Last(fkControls)), LAMBDA finPos :
    MoveTo(s1, ikPv, pvPos(midPos, dir2(midPos, meanPos2(initPos, finPos))))))))

-----------------------------------------------------------------------------
(* class AutoRiggerGUI.  gui holds, per widget, whether the widget itself  *)
(* is enabled, and the checked state of the check boxes and radio groups;  *)
(* self holds the attributes the instance has been given so far.  A        *)
(* handler runs on a record w = [scene, self, gui, err]: a statement after *)
(* an exception (err # NoErr) is not executed.  The sliders of the marker  *)
(* group hold a value per axis and change the transform of the group only: *)
(* its scale in hundredths, its translation, its rotation in quarter turns *)
(* (slider positions that are multiples of 90).                            *)

\* the window after initUI
initUI ==
    [tab1 |-> FALSE,
     createMarkersGroupBox |-> TRUE,
     halfBodyRadioButton |-> TRUE,
     fullBodyRadioButton |-> FALSE,
     splineSpineCheckbox |-> TRUE,
     editMarkersGroupBox |-> FALSE,
     mirrorMarkersBtn |-> TRUE,
     createSkeletonBtn |-> TRUE,
     rootGroupBox |-> FALSE,
     rootUniformScaleCheckbox |-> TRUE,
     spineGroupBox |-> FALSE,
     headGroupBox |-> FALSE,
     armsGroupBox |-> FALSE,
     armsRadioBtn |-> "FK",
     legsGroupBox |-> FALSE,
     legsRadioBtn |-> "FK",
     fkIkSnappingGroupBox |-> FALSE,
     fkikRadioBtn |-> TRUE,
     lArmBtn |-> TRUE, rArmBtn |-> TRUE, lLegBtn |-> TRUE, rLegBtn |-> TRUE,
     scaleSlider |-> <<100, 100, 100>>,
     offsetSlider |-> <<0, 0, 0>>,
     rotSlider |-> <<0, 0, 0>>]

\* the attributes of the instance after __init__
initSelf ==
    [markers |-> None, isLegFKIK |-> FALSE, isArmFKIK |-> FALSE]

Then(w, F(_)) == IF w.err # NoErr THEN w ELSE Bind(w, F)

\* self.<k> = v
Set(w, k, v) == [w EXCEPT !.self = (k :> v) @@ @]

\* self.<k>[side] = v
SetItem(w, k, side, v) == [w EXCEPT !.self = (k :> ((side :> v) @@ @[k])) @@ @]

\* the widget k is enabled or disabled
SetEnabled(w, k, v) == [w EXCEPT !.gui[k] = v]

\* the scene and the exception a builder leaves; in a world with fault set
\* Maya refuses the first command of the builder, and the exception leaves
\* the handler there (no handler has a try statement)
Call(w, st) ==
    IF w.fault THEN [w EXCEPT !.err = "RuntimeError: Maya"]
    ELSE [w EXCEPT !.scene = st.scene, !.err = st.err]

\* a Maya command on a node that has to exist
Need(w, n) ==
    IF w.err = NoErr /\ ~Exists(w.scene, n)
    THEN [w EXCEPT !.err = "ValueError: " \o n] ELSE w

\* The marker list onCreateMarkersBtnClicked builds: left, then the base
\* of the chosen spine, then the right side for a full body.
markersFor(spline, full) ==
    defaultLeftMarkers
    \o (IF spline THEN defaultSplineBaseMarkers ELSE defaultBaseMarkers)
    \o (IF full THEN defaultRightMarkers ELSE <<>>)

updateMarkerData(w) ==
    IF w.err # NoErr THEN w
    ELSE IF ~Exists(w.scene, w.self.markers)
         THEN [w EXCEPT !.err = "ValueError: " \o w.self.markers]
    ELSE Set(Set(w, "markerNames", markerNamesOf(w.scene, w.self.markers)),
             "markerData", markerDataOf(w.scene, w.self.markers))

\* a variant that never records the spline spine
onCreateMarkersBtnClickedPlain(w) ==
    Then(SetEnabled(SetEnabled(w, "editMarkersGroupBox", TRUE),
                    "createMarkersGroupBox", FALSE), LAMBDA w1 :
    Then(Set(w1, "splineSpine", FALSE), LAMBDA w2 :
    Then(IF w2.gui.fullBodyRadioButton
         THEN SetEnabled(SetEnabled(w2, "mirrorMarkersBtn", FALSE), "tab1", TRUE)
         ELSE w2, LAMBDA w3 :
    Then(Call(w3, Ok(createMarkers(w3.scene,
                                   markersFor(w3.gui.splineSpineCheckbox,
                                              w3.gui.fullBodyRadioButton)),
                     MarkersGrp)), LAMBDA w4 :
    Then(Set(w4, "markers", MarkersGrp), LAMBDA w5 :
    updateMarkerData(w5))))))

onCreateMarkersBtnClicked(w) ==
    Then(SetEnabled(SetEnabled(w, "editMarkersGroupBox", TRUE),
                    "createMarkersGroupBox", FALSE), LAMBDA w1 :
    Then(Set(w1, "splineSpine", w1.gui.splineSpineCheckbox), LAMBDA w2 :
    Then(IF w2.gui.fullBodyRadioButton
         THEN SetEnabled(SetEnabled(w2, "mirrorMarkersBtn", FALSE), "tab1", TRUE)
         ELSE w2, LAMBDA w3 :
    Then(Call(w3, Ok(createMarkers(w3.scene,
                                   markersFor(w3.gui.splineSpineCheckbox,
                                              w3.gui.fullBodyRadioButton)),
                     MarkersGrp)), LAMBDA w4 :
    Then(Set(w4, "markers", MarkersGrp), LAMBDA w5 :
    updateMarkerData(w5))))))

\* cmds.duplicate(marker, n=rightMarker) and the setAttr on its tx
MirrorOne(s, marker) ==
    Bind(Str(Replace(Spell[marker], SufL, SufR)), LAMBDA rightMarker :
    Bind(AddNode(s, rightMarker, s.kind[marker], ParentOf(s, marker)), LAMBDA s1 :
    SetPos(s1, rightMarker, <<-PosOf(s1, marker)[1], PosOf(s1, marker)[2],
                              PosOf(s1, marker)[3]>>)))

RECURSIVE MirrorEach(_, _)
MirrorEach(s, markerNames) ==
    IF Strict(s) /\ markerNames = <<>> THEN s
    ELSE IF EndsWith(Spell[Head(markerNames)], SufL)
         THEN MirrorEach(MirrorOne(s, Head(markerNames)), Tail(markerNames))
    ELSE MirrorEach(s, Tail(markerNames))

\* a variant that leaves the Mirror Markers button enabled
onMirrorMarkersBtnClickedAgain(w) ==
    Then(SetEnabled(w, "tab1", TRUE), LAMBDA w1 :
    Then(IF "markerNames" \in DOMAIN w1.self THEN w1
         ELSE [w1 EXCEPT !.err = "AttributeError: markerNames"], LAMBDA w2 :
    Then([w2 EXCEPT !.scene = MirrorEach(@, w2.self.markerNames)], LAMBDA w3 :
    updateMarkerData(w3))))

onMirrorMarkersBtnClicked(w) ==
    Then(SetEnabled(SetEnabled(w, "mirrorMarkersBtn", FALSE), "tab1", TRUE), LAMBDA w1 :
    Then(IF "markerNames" \in DOMAIN w1.self THEN w1
         ELSE [w1 EXCEPT !.err = "AttributeError: markerNames"], LAMBDA w2 :
    Then([w2 EXCEPT !.scene = MirrorEach(@, w2.self.markerNames)], LAMBDA w3 :
    updateMarkerData(w3))))

\* cmds.scale(x/100, y/100, z/100, self.markers)
adjustMarkersScale(w) ==
    Then(Need(w, w.self.markers), LAMBDA w1 :
    [w1 EXCEPT !.scene =
        SetAttr(SetAttr(SetAttr(@, w1.self.markers, "sx", w1.gui.scaleSlider[1]),
                        w1.self.markers, "sy", w1.gui.scaleSlider[2]),
                w1.self.markers, "sz", w1.gui.scaleSlider[3])])

\* cmds.xform(self.markers, translation=(x, y, z))
adjustMarkersOffset(w) ==
    Then(Need(w, w.self.markers), LAMBDA w1 :
    [w1 EXCEPT !.scene = SetPos(@, w1.self.markers,
                                [i \in 1..3 |-> 2 * w1.gui.offsetSlider[i]])])

\* cmds.xform(self.markers, rotation=(x, y, z))
adjustMarkersRotation(w) ==
    Then(Need(w, w.self.markers), LAMBDA w1 :
    [w1 EXCEPT !.scene = SetRot(@, w1.self.markers,
                                [i \in 1..3 |-> w1.gui.rotSlider[i] \div 90])])

\* a variant that leaves the marker group in the scene
onCreateSkeletonBtnClickedKeepGroup(w) ==
    Then(updateMarkerData(w), LAMBDA w1 :
    Bind(createSkeleton(w1.scene, w1.self.markerData, w1.self.splineSpine), LAMBDA sk :
    Then(Call(w1, sk), LAMBDA w2 :
    Then(Need(Set(w2, "skeleton", sk.ret), w2.self.markers), LAMBDA w3 :
    SetEnabled(SetEnabled(w3, "rootGroupBox", TRUE), "createSkeletonBtn", FALSE)))))

onCreateSkeletonBtnClicked(w) ==
    Then(updateMarkerData(w), LAMBDA w1 :
    Bind(createSkeleton(w1.scene, w1.self.markerData, w1.self.splineSpine), LAMBDA sk :
    Then(Call(w1, sk), LAMBDA w2 :
    Then(Need(Set(w2, "skeleton", sk.ret), w2.self.markers), LAMBDA w3 :
    Then([w3 EXCEPT !.scene = Delete(@, w3.self.markers)], LAMBDA w4 :
    SetEnabled(SetEnabled(w4, "rootGroupBox", TRUE), "createSkeletonBtn", FALSE))))))

onCreateRootControllersBtnClicked(w) ==
    Bind(createFKCharacterControllers(Ok(w.scene, <<>>), "root", None, "pelvis"),
         LAMBDA rc :
    Then(Call(w, rc), LAMBDA w1 :
    Then(Need(Need(Set(w1, "rootControls", rc.ret), "root_parentConstraint1"),
              "pelvis_parentConstraint1"), LAMBDA w2 :
    Then([w2 EXCEPT !.scene =
             AddConstraintNamed(
               AddConstraintNamed(
                 Delete(Delete(@, "root_parentConstraint1"), "pelvis_parentConstraint1"),
                 "root_parentConstraint1", "parentConstraint", <<"ctrl_root">>, "root"),
               "pelvis_parentConstraint1", "parentConstraint", <<"ctrl_pelvis">>,
               "pelvis")], LAMBDA w3 :
    Then(Set(w3, "scaleUniform", w3.gui.rootUniformScaleCheckbox), LAMBDA w4 :
    SetEnabled(SetEnabled(w4, "rootGroupBox", FALSE), "spineGroupBox", TRUE))))))

onCreateSpineControllersBtnClicked(w) ==
    Then(IF w.self.splineSpine
         THEN Bind(createSplineSpineIK(Ok(w.scene, <<>>), "spine1", "spine4", "spine9",
                                       "spine_ik"), LAMBDA sc :
              Then(Call(w, sc), LAMBDA w1 :
              Then(Set(w1, "spineControls", sc.ret), LAMBDA w2 :
              [w2 EXCEPT !.scene = Parent(@, Last(sc.ret), Last(w2.self.rootControls))])))
         ELSE Bind(createFKCharacterControllers(Ok(w.scene, <<>>), "spine1", None,
                                                "spine3"), LAMBDA sc :
              Then(Call(w, sc), LAMBDA w1 :
              Then(Set(w1, "spineControls", sc.ret), LAMBDA w2 :
              [w2 EXCEPT !.scene = Parent(@, At(sc.ret, 0) \o "_parent",
                                          Last(w2.self.rootControls))]))),
         LAMBDA w3 :
    SetEnabled(SetEnabled(w3, "spineGroupBox", FALSE), "headGroupBox", TRUE))

\* a variant that leaves the head group box enabled
onCreateHeadControllersBtnClickedAgain(w) ==
    Bind(createFKCharacterControllers(Ok(w.scene, <<>>), "neck", None, None),
         LAMBDA hc :
    Then(Call(w, hc), LAMBDA w1 :
    Then(Set(w1, "headControls", hc.ret), LAMBDA w2 :
    Then([w2 EXCEPT !.scene = Parent(@, At(hc.ret, 0) \o "_parent",
                                     Last(w2.self.spineControls))], LAMBDA w3 :
    SetEnabled(w3, "armsGroupBox", TRUE)))))

onCreateHeadControllersBtnClicked(w) ==
    Bind(createFKCharacterControllers(Ok(w.scene, <<>>), "neck", None, None),
         LAMBDA hc :
    Then(Call(w, hc), LAMBDA w1 :
    Then(Set(w1, "headControls", hc.ret), LAMBDA w2 :
    Then([w2 EXCEPT !.scene = Parent(@, At(hc.ret, 0) \o "_parent",
                                     Last(w2.self.spineControls))], LAMBDA w3 :
    SetEnabled(SetEnabled(w3, "headGroupBox", FALSE), "armsGroupBox", TRUE)))))

\* the FK branch of the arms and legs handlers
LimbFK(w, joint, leftControls, rightControls, parent) ==
    Bind(createFKCharacterControllers(Ok(w.scene, <<>>), joint \o "_l", None, None),
         LAMBDA lc :
    Then(Call(w, lc), LAMBDA w1 :
    Bind(createFKCharacterControllers(Ok(w1.scene, <<>>), joint \o "_r", None, None),
         LAMBDA rc :
    Then(Call(Set(w1, leftControls, lc.ret), rc), LAMBDA w2 :
    Then(Set(w2, rightControls, rc.ret), LAMBDA w3 :
    [w3 EXCEPT !.scene = Parent(Parent(@, At(lc.ret, 0) \o "_parent", parent),
                                At(rc.ret, 0) \o "_parent", parent)])))))

\* the body of the loop over the sides in the IK branch
LimbIK(w, side, startJoint, startParent, child, handleStart, handleEnd, handleName, ctrlJoint, ctrlName, pvJoint, pvName) ==
    Bind(createStartJointController(Ok(w.scene, <<>>), startJoint \o side, startParent,
                                    child \o side, startJoint \o side), LAMBDA sc :
    Bind(createIKHandle(sc, handleStart \o side, handleEnd \o side, handleName \o side),
         LAMBDA h :
    IF h.err # NoErr THEN Call(w, h)
    ELSE
    Bind(createIKController(h, h.ret[1], ctrlJoint \o side,
                            At(w.self.rootControls, 0) \o "_parent", ctrlName \o side),
         LAMBDA c :
    Bind(createPoleVectorConstraint(c, h.ret[1], At(w.self.rootControls, 0) \o "_parent",
                                    pvJoint \o side, pvName \o side), LAMBDA pv :
    IF c.err # NoErr THEN Call(w, c)
    ELSE Call(IF ctrlName = "arm" THEN Set(w, "ikControl", c.ret) ELSE w, pv)))))

\* the body of the loop over the sides in the IK/FK branch
LimbFKIK(w, side, limb, chain, fkParent, ikStartParent, ikOffset) ==
    Then(SetItem(w, limb \o "Chains", side, chain), LAMBDA w1 :
    Bind(createFKIKAccessories(Ok(w1.scene, <<>>), chain, limb \o side, fkParent,
                               At(w1.self.rootControls, 0) \o "_parent", ikStartParent,
                               ikOffset), LAMBDA acc :
    Then(Call(w1, acc), LAMBDA w2 :
    Then(SetItem(SetItem(SetItem(SetItem(SetItem(SetItem(w2,
             limb \o "FkChains", side, acc.ret[1]),
             limb \o "IkChains", side, acc.ret[2]),
             limb \o "FkCntrls", side, acc.ret[3]),
             limb \o "StartCntrls", side, acc.ret[4]),
             limb \o "IkCntrls", side, acc.ret[5]),
             limb \o "PvCntrls", side, acc.ret[6]), LAMBDA w3 :
    Bind(createFKIKSwitch(Ok(w3.scene, <<>>), acc.ret[1], acc.ret[2], chain, acc.ret[3],
                          acc.ret[4], acc.ret[5], acc.ret[6],
                          limb \o side \o "_switch"), LAMBDA sw :
    Then(Call(w3, sw), LAMBDA w4 :
    SetItem(w4, limb \o "Switches", side, sw.ret)))))))

\* the eight dictionaries the IK/FK branch starts with
LimbDicts(w, limb) ==
    [w EXCEPT !.self = [k \in {limb \o "Chains", limb \o "FkChains", limb \o "IkChains",
                               limb \o "FkCntrls", limb \o "StartCntrls",
                               limb \o "IkCntrls", limb \o "PvCntrls",
                               limb \o "Switches"} |-> <<>>] @@ @]

armChain(side) ==
    <<"clavicle" \o side, "upperArm" \o side, "lowerArm" \o side, "hand" \o side>>
legChain(side) == <<"thigh" \o side, "knee" \o side, "foot" \o side>>

onCreateArmsControllersBtnClicked(w) ==
    Then(IF w.gui.armsRadioBtn = "FK"
         THEN LimbFK(w, "clavicle", "leftArmControls", "rightArmControls",
                     Last(w.self.spineControls))
         ELSE IF w.gui.armsRadioBtn = "IK"
         THEN Then(LimbIK(w, "_l", "clavicle", Last(w.self.spineControls), "upperArm",
                          "upperArm", "hand", "arm_ik", "hand", "arm", "lowerArm",
                          "pv_arm_"), LAMBDA w1 :
                   LimbIK(w1, "_r", "clavicle", Last(w.self.spineControls), "upperArm",
                          "upperArm", "hand", "arm_ik", "hand", "arm", "lowerArm",
                          "pv_arm_"))
         ELSE Then(LimbDicts(w, "arm"), LAMBDA w1 :
              Then(LimbFKIK(w1, "_l", "arm", armChain("_l"), Last(w.self.spineControls),
                            Last(w.self.spineControls), 1), LAMBDA w2 :
              Then(LimbFKIK(w2, "_r", "arm", armChain("_r"), Last(w.self.spineControls),
                            Last(w.self.spineControls), 1), LAMBDA w3 :
              Set(w3, "isArmFKIK", TRUE)))),
         LAMBDA w4 :
    SetEnabled(SetEnabled(w4, "armsGroupBox", FALSE), "legsGroupBox", TRUE))

\* a variant with the first loop only
createUnifromScalingSiblings(w, rootCntrl, parentGrp) ==
    [w EXCEPT !.scene = ParentAll(@, Without(@.kids[parentGrp], rootCntrl \o "_parent"),
                                  rootCntrl)]

createUnifromScaling(w, rootCntrl, parentGrp) ==
    Bind(w.scene.kids[parentGrp], LAMBDA allKids :
    IF rootCntrl \o "_parent" \notin Range(allKids)
    THEN [w EXCEPT !.err = "ValueError: list.remove(x): x not in list"]
    ELSE
    Bind(ParentAll(w.scene, Without(allKids, rootCntrl \o "_parent"), rootCntrl),
         LAMBDA s1 :
    Bind(s1.kids[rootCntrl \o "_parent"], LAMBDA rootKids :
    IF rootCntrl \notin Range(rootKids)
    THEN [w EXCEPT !.scene = s1, !.err = "ValueError: list.remove(x): x not in list"]
    ELSE [w EXCEPT !.scene = ParentAll(s1, Without(rootKids, rootCntrl), rootCntrl)])))

\* the handles and switches cleanup looks for, per side, in its order
CleanupNames(side) ==
    <<"leg_ik" \o side, "arm_ik" \o side, "leg" \o side \o "_ik",
      "arm" \o side \o "_ik", "leg" \o side \o "_switch", "arm" \o side \o "_switch">>

RECURSIVE ParentExisting(_, _, _)
ParentExisting(s, ns, p) ==
    IF Strict(s) /\ ns = <<>> THEN s
    ELSE ParentExisting(IF Exists(s, Head(ns)) THEN Parent(s, Head(ns), p) ELSE s,
                        Tail(ns), p)

\* a variant that re-parents whatever self.scaleUniform holds
cleanupScaled(w) ==
    Then([w EXCEPT !.scene = AddNode(@, "rig", "transform", World)], LAMBDA w1 :
    Then(Need(Need(w1, At(w1.self.rootControls, 0) \o "_parent"),
              At(w1.self.skeleton, 0)), LAMBDA w2 :
    Then([w2 EXCEPT !.scene =
             ParentExisting(
                 Parent(Parent(@, At(w2.self.rootControls, 0) \o "_parent", "rig"),
                        At(w2.self.skeleton, 0), "rig"),
                 CleanupNames("_l") \o CleanupNames("_r"), "rig")], LAMBDA w3 :
    Then(createUnifromScaling(w3, At(w3.self.rootControls, 0), "rig"), LAMBDA w4 :
    IF w4.self.isLegFKIK \/ w4.self.isArmFKIK
    THEN Bind(SetEnabled(w4, "fkIkSnappingGroupBox", TRUE), LAMBDA w5 :
         Bind(IF w5.self.isLegFKIK = FALSE
              THEN SetEnabled(SetEnabled(w5, "lLegBtn", FALSE), "rLegBtn", FALSE)
              ELSE w5, LAMBDA w6 :
         IF w6.self.isArmFKIK = FALSE
         THEN SetEnabled(SetEnabled(w6, "lArmBtn", FALSE), "rArmBtn", FALSE)
         ELSE w6))
    ELSE w4))))

\* a variant that leaves the four snap buttons enabled
cleanupAllButtons(w) ==
    Then([w EXCEPT !.scene = AddNode(@, "rig", "transform", World)], LAMBDA w1 :
    Then(Need(Need(w1, At(w1.self.rootControls, 0) \o "_parent"),
              At(w1.self.skeleton, 0)), LAMBDA w2 :
    Then([w2 EXCEPT !.scene =
             ParentExisting(
                 Parent(Parent(@, At(w2.self.rootControls, 0) \o "_parent", "rig"),
                        At(w2.self.skeleton, 0), "rig"),
                 CleanupNames("_l") \o CleanupNames("_r"), "rig")], LAMBDA w3 :
    Then(IF w3.self.scaleUniform
         THEN createUnifromScaling(w3, At(w3.self.rootControls, 0), "rig")
         ELSE w3, LAMBDA w4 :
    IF w4.self.isLegFKIK \/ w4.self.isArmFKIK
    THEN Bind(SetEnabled(w4, "fkIkSnappingGroupBox", TRUE), LAMBDA w5 :
         w5)
    ELSE w4))))

cleanup(w) ==
    Then([w EXCEPT !.scene = AddNode(@, "rig", "transform", World)], LAMBDA w1 :
    Then(Need(Need(w1, At(w1.self.rootControls, 0) \o "_parent"),
              At(w1.self.skeleton, 0)), LAMBDA w2 :
    Then([w2 EXCEPT !.scene =
             ParentExisting(
                 Parent(Parent(@, At(w2.self.rootControls, 0) \o "_parent", "rig"),
                        At(w2.self.skeleton, 0), "rig"),
                 CleanupNames("_l") \o CleanupNames("_r"), "rig")], LAMBDA w3 :
    Then(IF w3.self.scaleUniform
         THEN createUnifromScaling(w3, At(w3.self.rootControls, 0), "rig")
         ELSE w3, LAMBDA w4 :
    IF w4.self.isLegFKIK \/ w4.self.isArmFKIK
    THEN Bind(SetEnabled(w4, "fkIkSnappingGroupBox", TRUE), LAMBDA w5 :
         Bind(IF w5.self.isLegFKIK = FALSE
              THEN SetEnabled(SetEnabled(w5, "lLegBtn", FALSE), "rLegBtn", FALSE)
              ELSE w5, LAMBDA w6 :
         IF w6.self.isArmFKIK = FALSE
         THEN SetEnabled(SetEnabled(w6, "lArmBtn", FALSE), "rArmBtn", FALSE)
         ELSE w6))
    ELSE w4))))

onCreateLegsControllersBtnClicked(w) ==
    Then(IF w.gui.legsRadioBtn = "FK"
         THEN LimbFK(w, "thigh", "leftLegControls", "rightLegControls",
                     Last(w.self.rootControls))
         ELSE IF w.gui.legsRadioBtn = "IK"
         THEN Then(LimbIK(w, "_l", "thigh", At(w.self.rootControls, 1), "thigh",
                          "thigh", "foot", "leg_ik", "ball", "leg", "knee", "pv_leg_"),
                   LAMBDA w1 :
                   LimbIK(w1, "_r", "thigh", At(w.self.rootControls, 1), "thigh",
                          "thigh", "foot", "leg_ik", "ball", "leg", "knee", "pv_leg_"))
         ELSE Then(LimbDicts(w, "leg"), LAMBDA w1 :
              Then(LimbFKIK(w1, "_l", "leg", legChain("_l"), At(w.self.rootControls, 1),
                            At(w.self.rootControls, 1), 0), LAMBDA w2 :
              Then(LimbFKIK(w2, "_r", "leg", legChain("_r"), At(w.self.rootControls, 1),
                            At(w.self.rootControls, 1), 0), LAMBDA w3 :
              Set(w3, "isLegFKIK", TRUE)))),
         LAMBDA w4 :
    cleanup(SetEnabled(w4, "legsGroupBox", FALSE)))

\* a variant that reads the arm from its first controller, as for a leg
snapArmFKIKFromStart(w, side) ==
    IF w.gui.fkikRadioBtn
    THEN [w EXCEPT !.scene = snapFKtoIK(@, w.self.armFkCntrls[side],
                                         w.self.armIkChains[side])]
    ELSE [w EXCEPT !.scene = snapIKtoFK(@, w.self.armFkCntrls[side],
                                         <<w.self.armStartCntrls[side],
                                           w.self.armIkCntrls[side]>>,
                                         w.self.armIkCntrls[side],
                                         w.self.armPvCntrls[side], 0)]

snapArmFKIK(w, side) ==
    IF w.gui.fkikRadioBtn
    THEN [w EXCEPT !.scene = snapFKtoIK(@, w.self.armFkCntrls[side],
                                         w.self.armIkChains[side])]
    ELSE [w EXCEPT !.scene = snapIKtoFK(@, w.self.armFkCntrls[side],
                                         <<w.self.armStartCntrls[side],
                                           w.self.armIkCntrls[side]>>,
                                         w.self.armIkCntrls[side],
                                         w.self.armPvCntrls[side], 1)]

snapLegFKIK(w, side) ==
    IF w.gui.fkikRadioBtn
    THEN [w EXCEPT !.scene = snapFKtoIK(@, w.self.legFkCntrls[side],
                                         w.self.legIkChains[side])]
    ELSE [w EXCEPT !.scene = snapIKtoFK(@, w.self.legFkCntrls[side],
                                         <<w.self.legStartCntrls[side],
                                           w.self.legStartCntrls[side]>>,
                                         w.self.legIkCntrls[side],
                                         w.self.legPvCntrls[side], 0)]
-----------------------------------------------------------------------------
(* Skeleton.createSkeleton on its own: the scene holds the markers of one  *)
(* of the four marker lists less up to MaxMissing of them, the marker data *)
(* is read from the scene, and splineSpine is either value.                *)

MaxMissing == 1

DropNames(markers, gone) ==
    LET keep(m) == m[1] \notin gone IN SelectSeq(markers, keep)

RECURSIVE SubsetsUpTo(_, _)
SubsetsUpTo(S, k) ==
    IF k = 0 THEN {{}}
    ELSE LET less == SubsetsUpTo(S, k - 1)
         IN  less \cup {T \cup {x} : T \in less, x \in S}

SkelInputs ==
    {DropNames(markersFor(sp, full), gone) :
        sp \in BOOLEAN, full \in BOOLEAN,
        gone \in SubsetsUpTo(Range(NamesOf(markersFor(TRUE, TRUE))), MaxMissing)}

InitSkel ==
    \E markers \in SkelInputs, splineSpine \in BOOLEAN :
        /\ \E s \in {createMarkers(EmptyScene, markers)} : scene = s
        /\ call = [fn |-> "createSkeleton", pc |-> "ready",
                   markerData |-> markerDataOf(scene, MarkersGrp),
                   splineSpine |-> splineSpine, err |-> NoErr, out |-> <<>>]
        /\ self = initSelf
        /\ gui = initUI

SkelCall ==
    /\ call.fn = "createSkeleton" /\ call.pc = "ready"
    /\ \E st \in {createSkeleton(scene, call.markerData, call.splineSpine)} :
           /\ scene' = st.scene
           /\ call' = [call EXCEPT !.pc = "done", !.err = st.err,
                                   !.out = IF st.err = NoErr THEN <<st.ret>> ELSE <<>>]
    /\ UNCHANGED <<self, gui>>

NextSkel == SkelCall

SpecSkel == InitSkel /\ [][NextSkel]_vars

-----------------------------------------------------------------------------
(* Claims about Skeleton.createSkeleton *)

\* the names the selected topology needs, in the order createSkeleton builds them
BuildOrder(splineSpine) ==
    NamesOf(IF splineSpine THEN defaultSplineBaseMarkers ELSE defaultBaseMarkers)
    \o NamesOf(defaultLeftMarkers) \o NamesOf(defaultRightMarkers)

Required(splineSpine) == Range(BuildOrder(splineSpine))

SkelDone == call.fn = "createSkeleton" /\ call.pc = "done"
SkelValid == Required(call.splineSpine) \subseteq DOMAIN call.markerData
SkelHalfBody ==
    /\ Required(call.splineSpine) \ Range(NamesOf(defaultRightMarkers))
          \subseteq DOMAIN call.markerData
    /\ Range(NamesOf(defaultRightMarkers)) \cap DOMAIN call.markerData = {}

\* the chains of the returned tuple and the joint each one hangs under
SkelChains(ret) == [i \in 1..11 |-> ret[i + 2]]
SkelAttach(ret) ==
    <<ret[2], FromEnd(ret[3], 3), FromEnd(ret[4], 1), FromEnd(ret[4], 1),
      FromEnd(ret[4], 1), ret[2], FromEnd(ret[3], 3), FromEnd(ret[9], 1),
      FromEnd(ret[9], 1), FromEnd(ret[9], 1), ret[2]>>

ChainIsLinked(s, chain, attach) ==
    \A i \in 1..Len(chain) :
        Parents(s, chain[i]) = {IF i = 1 THEN attach ELSE chain[i - 1]}

\* C1: with every name of the selected topology in the marker map,
\* createSkeleton succeeds and leaves a tree of joints: root has no parent,
\* pelvis hangs under root, every joint of a chain has exactly one parent,
\* the joint before it in the chain or, for the first joint, the joint the
\* chain is attached to; and the joints are exactly the markers consumed.
C1_SkeletonIsTree ==
    (SkelDone /\ SkelValid) =>
        /\ call.err = NoErr /\ Len(call.out) = 1
        /\ LET ret == call.out[1]
           IN  /\ Parents(scene, ret[1]) = {World}
               /\ ret[1] = "root"
               /\ Parents(scene, ret[2]) = {ret[1]}
               /\ \A c \in 1..11 :
                     ChainIsLinked(scene, SkelChains(ret)[c], SkelAttach(ret)[c])
               /\ Joints(scene) =
                     {ret[1], ret[2]} \cup UNION {Range(SkelChains(ret)[c]) : c \in 1..11}
               /\ Joints(scene) = (DOMAIN call.markerData) \ Locators(scene)
               /\ Joints(scene) = Required(call.splineSpine)

C1_Witness ==
    /\ SkelDone /\ SkelValid /\ call.splineSpine
    /\ "spine4" \in Joints(scene) /\ "toe_r" \in Joints(scene)

\* C2 as stated: the arm chains and the leg chains all hang under the
\* spine joint three positions from the far end of the spine chain.
C2_AllLimbsUnderSpine ==
    (SkelDone /\ call.err = NoErr) =>
        LET ret == call.out[1]
        IN  \A c \in {4, 8, 9, 13} :
               Parents(scene, ret[c][1]) = {FromEnd(ret[3], 3)}

\* C2 amended: in both topologies the two arm chains hang under the joint
\* three positions from the far end of the chain built from the base markers
\* after pelvis (spine3, or spine9 with the spline spine: the joint before
\* neck and head), and the two leg chains hang under pelvis.
C2_ArmsUnderSpineLegsUnderPelvis ==
    (SkelDone /\ call.err = NoErr) =>
        LET ret == call.out[1]
            spineJs == SliceFrom(BuildOrder(call.splineSpine),  2)
        IN  /\ ret[3] = SubSeq(spineJs, 1, Len(ret[3]))
            /\ FromEnd(ret[3], 1) = "head" /\ FromEnd(ret[3], 2) = "neck"
            /\ FromEnd(ret[3], 3) = (IF call.splineSpine THEN "spine9" ELSE "spine3")
            /\ \A c \in {4, 9} : Parents(scene, ret[c][1]) = {FromEnd(ret[3], 3)}
            /\ \A c \in {8, 13} : Parents(scene, ret[c][1]) = {"pelvis"}
            /\ <<ret[4][1], ret[9][1], ret[8][1], ret[13][1]>>
                  = <<"clavicle_l", "clavicle_r", "thigh_l", "thigh_r">>

C2_Witness ==
    /\ SkelDone /\ call.err = NoErr /\ ~call.splineSpine
    /\ Parents(scene, "clavicle_r") = {"spine3"}
    /\ Parents(scene, "thigh_r") = {"pelvis"}

\* the first name of the build order that the marker map lacks
FirstMissing(order, have) ==
    order[CHOOSE i \in 1..Len(order) :
            /\ order[i] \notin have
            /\ \A j \in 1..(i - 1) : order[j] \in have]

\* C3: a marker map that lacks a name of the selected topology makes
\* createSkeleton end in the missing-key error, raised for the first such
\* name of the build order, and nothing is returned.
C3_MissingMarkerIsError ==
    (SkelDone /\ ~SkelValid) =>
        /\ call.err = "KeyError: " \o FirstMissing(BuildOrder(call.splineSpine),
                                                   DOMAIN call.markerData)
        /\ call.out = <<>>

C3_Witness ==
    /\ SkelDone /\ ~SkelValid
    /\ "knee_l" \notin DOMAIN call.markerData
    /\ call.err = "KeyError: knee_l"

Consumed(order, have) ==
    LET miss == CHOOSE i \in 1..Len(order) :
                    /\ order[i] \notin have
                    /\ \A j \in 1..(i - 1) : order[j] \in have
    IN  {order[j] : j \in 1..(miss - 1)}

NotReached(order, have) == Range(order) \ Consumed(order, have)

\* C23: when createSkeleton fails on a missing marker name nothing is
\* rolled back: every joint built before the failing name is still in the
\* scene, where it was built, and its marker is gone, and every marker from
\* the failing name onward (and every marker outside the build order) is
\* still a locator under the markers group.
C23_FailureLeavesPartialSkeleton ==
    (SkelDone /\ ~SkelValid) =>
        LET order == BuildOrder(call.splineSpine)
            have == DOMAIN call.markerData
            built == Consumed(order, have)
        IN  /\ call.err # NoErr
            /\ Joints(scene) = built
            /\ \A j \in built : scene.pos[j] = call.markerData[j]
            /\ Locators(scene) \cap built = {}
            /\ Locators(scene) = have \ built
            /\ NotReached(order, have) \cap have \subseteq Locators(scene)
            /\ Range(scene.kids[MarkersGrp]) = have \ built

C23_Witness ==
    /\ SkelDone /\ ~SkelValid
    /\ call.err = "KeyError: knee_l"
    /\ {"root", "thigh_l"} \subseteq Joints(scene)
    /\ {"foot_l", "clavicle_r"} \subseteq Locators(scene)
    /\ "thigh_l" \notin Locators(scene)

-----------------------------------------------------------------------------
(* FK.createFKCharacterControllers on its own: the scene holds a tree of   *)
(* at most MaxJoints joints j1, j2, ... (the parent of a joint is any      *)
(* joint made before it), rootJoint is any of them and endJoint is any of  *)
(* them or None.                                                           *)

MaxJoints == 4

J(i) == "j" \o ToString(i)

\* the joints 1..n, joint i under joint up[i]
RECURSIVE JointTree(_, _, _)
JointTree(s, up, i) ==
    IF i > Len(up) THEN s
    ELSE JointTree(createJoint(s, J(i), IF i = 1 THEN None ELSE J(up[i]), <<0, 0, 0>>),
                   up, i + 1)

TreeShapes(n) == {up \in [1..n -> 0..(n - 1)] : \A i \in 1..n : up[i] = 0 \/ up[i] < i}
RootedShapes(n) == {up \in TreeShapes(n) : \A i \in 1..n : (up[i] = 0) = (i = 1)}

InitFK ==
    \E n \in 1..MaxJoints :
      \E up \in RootedShapes(n), r \in 1..n, e \in 0..n :
        /\ scene = JointTree(EmptyScene, up, 1)
        /\ call = [fn |-> "createFKCharacterControllers", pc |-> "ready",
                   rootJoint |-> J(r), endJoint |-> IF e = 0 THEN None ELSE J(e),
                   stack |-> <<>>, controllers |-> <<>>,
                   err |-> NoErr, out |-> <<>>]
        /\ self = initSelf
        /\ gui = initUI

FKFrame(s, c) ==
    [scene |-> s, err |-> c.err, stack |-> c.stack,
     controllers |-> c.controllers, endJoint |-> c.endJoint]

\* the caller's call
FKCall ==
    /\ call.fn = "createFKCharacterControllers" /\ call.pc = "ready"
    /\ LET f == FKStart(scene, call.rootJoint, None, call.endJoint)
       IN  call' = [call EXCEPT !.pc = "running", !.stack = f.stack]
    /\ UNCHANGED <<scene, self, gui>>

\* the next call of the recursion
FKVisit ==
    /\ call.fn = "createFKCharacterControllers" /\ call.pc = "running"
    /\ call.stack # <<>>
    /\ \E f \in {FKStep(FKFrame(scene, call))} :
           /\ scene' = f.scene
           /\ call' = [call EXCEPT !.stack = f.stack, !.err = f.err,
                                   !.controllers = f.controllers]
    /\ UNCHANGED <<self, gui>>

\* the outermost call returns
FKReturn ==
    /\ call.fn = "createFKCharacterControllers" /\ call.pc = "running"
    /\ call.stack = <<>>
    /\ call' = [call EXCEPT !.pc = "done",
                            !.out = IF call.err = NoErr THEN <<call.controllers>>
                                    ELSE <<>>]
    /\ UNCHANGED <<scene, self, gui>>

NextFK == FKCall \/ FKVisit \/ FKReturn

SpecFK == InitFK /\ [][NextFK]_vars

\* the recursion is one thread of control: a call that can go on does
SpecFKFair == SpecFK /\ WF_vars(NextFK)

-----------------------------------------------------------------------------
(* Claims about FK.createFKCharacterControllers *)

FKDone == call.fn = "createFKCharacterControllers" /\ call.pc = "done"

JointOf(controller) == CHOOSE j \in Joints(scene) : Ctrl(j) = controller

Subtree(s, j) == {j} \cup (Descendants(s, j) \cap Joints(s))

\* the joints from rootJoint down to endJoint, when endJoint is below rootJoint
FKPath(s, r, e) == {j \in Subtree(s, r) : e \in Subtree(s, j)}

\* the joints the recursion reaches: those below rootJoint, less the ones
\* strictly below endJoint
FKReached(s, r, e) ==
    IF e = None \/ e \notin Subtree(s, r) THEN Subtree(s, r)
    ELSE Subtree(s, r) \ (Subtree(s, e) \ {e})

\* controllers in pre-order: no joint twice, and the controllers of the
\* reached joints below a joint follow its own without a gap
FKPreOrder(cs, reached) ==
    /\ \A a, b \in 1..Len(cs) : cs[a] = cs[b] => a = b
    /\ \A a \in 1..Len(cs) :
          LET below == (Subtree(scene, JointOf(cs[a])) \cap reached) \ {JointOf(cs[a])}
          IN  {JointOf(cs[b]) : b \in (a + 1)..(a + Cardinality(below))} = below

\* C7 as stated: on any joint tree, with endJoint given (and below
\* rootJoint), the controllers come in pre-order and there is one per joint
\* of the range rootJoint..endJoint, none for a joint outside it.
C7_OnePerJointOfRange ==
    (FKDone /\ call.endJoint \in Subtree(scene, call.rootJoint)) =>
        /\ call.err = NoErr
        /\ LET cs == call.out[1]
               path == FKPath(scene, call.rootJoint, call.endJoint)
           IN  /\ FKPreOrder(cs, FKReached(scene, call.rootJoint, call.endJoint))
               /\ Len(cs) = Cardinality(path)
               /\ {JointOf(cs[a]) : a \in 1..Len(cs)} = path

\* C7 amended: on any joint tree the controllers come in pre-order, one
\* per joint below rootJoint that is not strictly below endJoint: the
\* recursion stops at endJoint and at childless joints but still goes down
\* every other branch.  When every joint of the range rootJoint..endJoint
\* before endJoint has a single child joint, that is one controller per
\* joint of the range and none outside it.
C7_OnePerReachedJoint ==
    FKDone =>
        /\ call.err = NoErr
        /\ LET cs == call.out[1]
               r == call.rootJoint
               e == call.endJoint
               reached == FKReached(scene, r, e)
           IN  /\ cs[1] = Ctrl(r)
               /\ FKPreOrder(cs, reached)
               /\ {JointOf(cs[a]) : a \in 1..Len(cs)} = reached
               /\ \A j \in Joints(scene) : Exists(scene, Ctrl(j)) <=> j \in reached
               /\ (/\ e \in Subtree(scene, r)
                   /\ \A j \in FKPath(scene, r, e) \ {e} : Len(JointKids(scene, j)) = 1)
                  => /\ reached = FKPath(scene, r, e)
                     /\ Len(cs) = Cardinality(FKPath(scene, r, e))

\* a branching tree: j1 has the children j2 and j3, the range is j1..j2
C7_Witness ==
    /\ FKDone
    /\ call.rootJoint = "j1" /\ call.endJoint = "j2"
    /\ JointKids(scene, "j1") = <<"j2", "j3">>
    /\ call.out = << <<"ctrl_j1", "ctrl_j2", "ctrl_j3">> >>

\* C8: the recursion ends on every joint tree, and with rootJoint = endJoint
\* it returns the controller of that joint alone and no other joint gets one.
C8_Terminates ==
    /\ <>FKDone
    /\ [](FKDone /\ call.rootJoint = call.endJoint =>
            /\ call.out = << <<Ctrl(call.rootJoint)>> >>
            /\ \A j \in Joints(scene) : Exists(scene, Ctrl(j)) <=> j = call.rootJoint)

\* rootJoint = endJoint on a joint that has children
C8_Witness ==
    /\ FKDone
    /\ call.rootJoint = "j1" /\ call.endJoint = "j1"
    /\ Len(JointKids(scene, "j1")) = 2
    /\ call.out = << <<"ctrl_j1">> >>

\* C18: after createFKCharacterControllers the controllers stand as the
\* joints they were made for: the offset node of the controller of every
\* joint the recursion reached, other than rootJoint, is a child of the
\* controller of that joint's parent joint, the offset node of rootJoint's
\* controller has no parent, and every controller is the child of its own
\* offset node.
C18_ControllersMirrorJoints ==
    FKDone =>
        /\ call.err = NoErr
        /\ ParentOf(scene, CtrlParent(call.rootJoint)) = World
        /\ \A j \in FKReached(scene, call.rootJoint, call.endJoint) :
              /\ Exists(scene, CtrlParent(j))
              /\ ParentOf(scene, Ctrl(j)) = CtrlParent(j)
              /\ j # call.rootJoint
                    => ParentOf(scene, CtrlParent(j)) = Ctrl(ParentOf(scene, j))

\* a tree with a branch and a joint two levels down, walked from a joint
\* that has a parent of its own: j2 is under j1, j3 and j4 under j2
C18_Witness ==
    /\ FKDone /\ call.err = NoErr
    /\ call.rootJoint = "j2" /\ call.endJoint = None
    /\ ParentOf(scene, "j2") = "j1"
    /\ JointKids(scene, "j2") = <<"j3", "j4">>
    /\ ParentOf(scene, "ctrl_j3_parent") = "ctrl_j2"
    /\ ParentOf(scene, "ctrl_j4_parent") = "ctrl_j2"
    /\ ParentOf(scene, "ctrl_j2_parent") = World
    /\ ~Exists(scene, "ctrl_j1")
-----------------------------------------------------------------------------
(* The FK/IK limb on its own: the body of the loop over the sides in the   *)
(* IK/FK branch of the arms and legs handlers, on the left arm or the left *)
(* leg of a skeleton of root, pelvis and the limb, with the joints of the  *)
(* limb where the user put the markers, and then the two snap functions.   *)
(* In between the animator turns an FK controller or drags the IK          *)
(* controller, at most MaxPoses times.  call.hist holds the snaps made     *)
(* since the last pose, the latest last, each with the scene it started    *)
(* from.                                                                   *)

MaxPoses == 1

LimbKinds == {"arm", "leg"}
StartPoints == {<<0, 20, 0>>}
MidPoints == {<<0, 10, -4>>, <<0, 10, 0>>, <<0, 12, 0>>}
EndPoints == {<<0, 0, 0>>}
\* the rotations a pose gives a node, in quarter turns
Turned == {<<0, 0, 0>>, <<1, 3, 1>>}

LimbChain(limb) == IF limb = "arm" THEN armChain("_l") ELSE legChain("_l")
LimbOffset(limb) == IF limb = "arm" THEN 1 ELSE 0

\* root, pelvis and the chain, with the controllers of root and pelvis
LimbScene(limb, p0, p1, p2) ==
    Bind(createJoint(createJoint(EmptyScene, "root", None, <<0, 0, 0>>),
                     "pelvis", "root", <<0, 24, 0>>), LAMBDA s1 :
    Bind(IF limb = "arm" THEN <<<<0, 22, 0>>, p0, p1, p2>> ELSE <<p0, p1, p2>>,
         LAMBDA ps :
    Bind([i \in 1..Len(ps) |-> <<LimbChain(limb)[i], ps[i]>>], LAMBDA markers :
    Bind(createJointChainFromMarkers(Ok(CreateLocators(s1, markers), <<>>),
                                     NamesOf(markers),
                                     [m \in Range(NamesOf(markers)) |->
                                         ps[CHOOSE i \in 1..Len(ps) : markers[i][1] = m]],
                                     "pelvis"), LAMBDA js :
    createFKCharacterControllers(js, "root", None, "pelvis")))))

InitLimb ==
    \E limb \in LimbKinds, p0 \in StartPoints, p1 \in MidPoints, p2 \in EndPoints :
        /\ \E st \in {LimbScene(limb, p0, p1, p2)} :
              /\ scene = st.scene
              /\ call = [fn |-> "createFKIKAccessories", pc |-> "ready",
                         chain |-> LimbChain(limb), prefix |-> limb \o "_l",
                         offset |-> LimbOffset(limb), rootControls |-> st.ret,
                         err |-> st.err, out |-> <<>>, switch |-> None,
                         poses |-> 0, hist |-> <<>>]
        /\ self = initSelf
        /\ gui = initUI

\* FKIK.createFKIKAccessories as the legs handler calls it
AccessoriesCall ==
    /\ call.fn = "createFKIKAccessories" /\ call.pc = "ready"
    /\ \E st \in {createFKIKAccessories(Ok(scene, <<>>), call.chain, call.prefix,
                                        At(call.rootControls, 1),
                                        At(call.rootControls, 0) \o "_parent",
                                        At(call.rootControls, 1), call.offset)} :
          /\ scene' = st.scene
          /\ call' = [call EXCEPT !.pc = "accessories", !.err = st.err,
                                  !.out = IF st.err = NoErr THEN st.ret ELSE <<>>,
                                  !.hist = <<<<"createFKIKAccessories", scene>>>>]
    /\ UNCHANGED <<self, gui>>

\* FKIK.createFKIKSwitch on what createFKIKAccessories returned
SwitchCall ==
    /\ call.fn = "createFKIKAccessories" /\ call.pc = "accessories"
    /\ call.err = NoErr
    /\ \E st \in {createFKIKSwitch(Ok(scene, <<>>), call.out[1], call.out[2],
                                   call.chain, call.out[3], call.out[4], call.out[5],
                                   call.out[6], call.prefix \o "_switch")} :
          /\ scene' = st.scene
          /\ call' = [call EXCEPT !.pc = "built", !.err = st.err, !.switch = st.ret,
                                  !.hist = <<>>]
    /\ UNCHANGED <<self, gui>>

LimbBuilt == call.fn = "createFKIKAccessories" /\ call.pc = "built"

\* the animator turns an FK controller
PoseFK ==
    /\ LimbBuilt /\ call.poses < MaxPoses
    /\ \E i \in 1..Len(call.out[3]) :
       \E r \in Turned \ {RotOf(scene, call.out[3][i])} :
          scene' = SetRot(scene, call.out[3][i], r)
    /\ call' = [call EXCEPT !.poses = @ + 1, !.hist = <<>>]
    /\ UNCHANGED <<self, gui>>

(* What Maya makes of the nodes createIKHandle and createIKController      *)
(* leave: a handle with the rotate-plane solver from startJoint to         *)
(* endEffector, point constrained to the controller, and the end joint     *)
(* orient constrained to the controller.  The joints from startJoint to    *)
(* the one before endEffector turn so that endEffector comes to the        *)
(* handle; when the chain is stretched out the handle may lie further out  *)
(* than the chain reaches.                                                 *)

\* the ikRPsolver handles of the scene
Handles(s) == {h \in DOMAIN s.cons : s.cons[h].type = "ikRPsolver"}

\* the nodes a constraint of the type ties n to
Drivers(s, type, n) ==
    UNION {Range(s.cons[c].targets) :
              c \in {d \in DOMAIN s.cons : s.cons[d].type = type /\ s.cons[d].driven = n}}

\* the joints the solver turns: startJoint down to the parent of endEffector
RECURSIVE Bones(_, _, _)
Bones(s, startJoint, endEffector) ==
    IF endEffector = startJoint \/ endEffector = World THEN <<>>
    ELSE Append(Bones(s, startJoint, ParentOf(s, endEffector)), ParentOf(s, endEffector))

RECURSIVE TurnEach(_, _, _)
TurnEach(s, ns, turn) ==
    IF Strict(s) /\ ns = <<>> THEN s
    ELSE TurnEach(SetRot(s, Head(ns), turn[Head(ns)]), Tail(ns), turn)

Cross(a, b) ==
    <<a[2] * b[3] - a[3] * b[2], a[3] * b[1] - a[1] * b[3], a[1] * b[2] - a[2] * b[1]>>
Dot(a, b) == a[1] * b[1] + a[2] * b[2] + a[3] * b[3]
Collinear(p0, p1, p2) == Cross(VSub(p1, p0), VSub(p2, p1)) = <<0, 0, 0>>
Stretched(p0, p1, p2) == Collinear(p0, p1, p2) /\ Dot(VSub(p1, p0), VSub(p2, p1)) > 0

\* the scene after the solver and the constraints have followed controller
\* c, turned to R: the bones turned by turn, the end joint turned with the
\* controller if it is orient constrained to it, and the controller on the
\* end joint, or further out by the last bone if far is set
Solved(s, h, c, turn, R, far) ==
    Bind(s.cons[h].targets[1], LAMBDA startJoint :
    Bind(s.cons[h].targets[2], LAMBDA endEffector :
    Bind(TurnEach(s, Bones(s, startJoint, endEffector), turn), LAMBDA s1 :
    Bind(RotateTo(s1, c, R), LAMBDA s2 :
    Bind(IF c \in Drivers(s2, "orientConstraint", endEffector)
         THEN RotateTo(s2, endEffector, R) ELSE s2, LAMBDA s3 :
    Bind(WorldPos(s3, endEffector), LAMBDA tip :
    Bind(WorldPos(s3, ParentOf(s3, endEffector)), LAMBDA mid :
    MoveTo(s3, c, IF far THEN VAdd(tip, VSub(tip, mid)) ELSE tip))))))))

\* the animator drags and turns the IK controller
PoseIK ==
    /\ LimbBuilt /\ call.poses < MaxPoses
    /\ \E h \in Handles(scene) :
       \E c \in Drivers(scene, "pointConstraint", h) :
       \E turn \in [Range(Bones(scene, scene.cons[h].targets[1],
                                scene.cons[h].targets[2])) -> Turned] :
       \E R \in Turned, far \in BOOLEAN :
       \E s \in {Solved(scene, h, c, turn, Matrix(R), far)} :
          /\ far => Stretched(WorldPos(s, scene.cons[h].targets[1]),
                              WorldPos(s, ParentOf(s, scene.cons[h].targets[2])),
                              WorldPos(s, scene.cons[h].targets[2]))
          /\ s # scene
          /\ scene' = s
    /\ call' = [call EXCEPT !.poses = @ + 1, !.hist = <<>>]
    /\ UNCHANGED <<self, gui>>

\* the controller is where the solver and the constraints can follow it:
\* endEffector is on it (createIKController puts the controller on the
\* joint, so the offset the point constraint maintains is zero), or the
\* chain is stretched out towards it; and the end joint is turned as the
\* controller is if it is orient constrained to it
Reached(s, h, c) ==
    LET tip == WorldPos(s, s.cons[h].targets[2])
        mid == WorldPos(s, ParentOf(s, s.cons[h].targets[2]))
        goal == WorldPos(s, c)
    IN  /\ \/ tip = goal
           \/ /\ Stretched(WorldPos(s, s.cons[h].targets[1]), mid, tip)
              /\ Stretched(mid, tip, goal)
        /\ c \in Drivers(s, "orientConstraint", s.cons[h].targets[2])
              => WorldRot(s, s.cons[h].targets[2]) = WorldRot(s, c)

\* the bones turned by turn and the end joint turned with the controller
Follow(s, h, c, turn) ==
    Bind(TurnEach(s, Bones(s, s.cons[h].targets[1], s.cons[h].targets[2]), turn),
         LAMBDA s1 :
    IF c \in Drivers(s1, "orientConstraint", s.cons[h].targets[2])
    THEN RotateTo(s1, s.cons[h].targets[2], WorldRot(s1, c)) ELSE s1)

\* the scenes Maya can leave once the solver has followed the controllers,
\* among the poses the bones take here
Followed(s) ==
    IF Handles(s) = {} THEN {s}
    ELSE UNION {UNION {{f \in {Follow(s, h, c, turn) :
                                  turn \in [Range(Bones(s, s.cons[h].targets[1],
                                                        s.cons[h].targets[2])) -> Turned]} :
                           Reached(f, h, c)} :
                       c \in Drivers(s, "pointConstraint", h)} :
                h \in Handles(s)}

\* the latest two entries of the history
Latest(hist) == SubSeq(hist, IF Len(hist) > 2 THEN Len(hist) - 1 ELSE 1, Len(hist))

\* FKIK.snapFKtoIK as snapArmFKIK and snapLegFKIK call it
SnapFKtoIK ==
    /\ LimbBuilt
    /\ scene' = snapFKtoIK(scene, call.out[3], call.out[2])
    /\ call' = [call EXCEPT !.hist = Latest(Append(@, <<"snapFKtoIK", scene>>))]
    /\ UNCHANGED <<self, gui>>

\* FKIK.snapIKtoFK as snapArmFKIK and snapLegFKIK call it, and the IK
\* joints following the controller it has moved
SnapIKtoFK ==
    /\ LimbBuilt
    /\ \E s \in {snapIKtoFK(scene, call.out[3], <<call.out[4], call.out[5]>>,
                              call.out[5], call.out[6], call.offset)} :
       \E f \in Followed(s) : scene' = f
    /\ call' = [call EXCEPT !.hist = Latest(Append(@, <<"snapIKtoFK", scene>>))]
    /\ UNCHANGED <<self, gui>>

NextLimb ==
    \/ AccessoriesCall
    \/ SwitchCall
    \/ PoseFK
    \/ PoseIK
    \/ SnapFKtoIK
    \/ SnapIKtoFK

SpecLimb == InitLimb /\ [][NextLimb]_vars

-----------------------------------------------------------------------------
(* Claims about the FK/IK limb *)

\* the latest snap was op, and From is the scene it started from
Snapped(op) == LimbBuilt /\ call.hist # <<>> /\ Last(call.hist)[1] = op
From == Last(call.hist)[2]

limbFkCntrls == call.out[3]
limbIkChain == call.out[2]
limbIkCntrl == call.out[5]
limbPvCntrl == call.out[6]

RotateAttrs == {"rx", "ry", "rz"}

\* the attribute values of s other than the rotate channels of the nodes ns
AttrsBut(s, ns) == Restrict(s.attr, {k \in DOMAIN s.attr : ~(k[1] \in ns /\ k[2] \in RotateAttrs)})

\* C11: snapFKtoIK leaves every FK controller of a pair with the rx, ry and
\* rz of its IK joint and changes nothing else in the scene: the DAG, the
\* positions, the constraints, the connections and every other attribute
\* value (so the IK joints, the IK handle and controller, the pole vector
\* controller and the switch) are as before; a second call changes nothing.
C11_SnapFKtoIKCopiesRotation ==
    Snapped("snapFKtoIK") =>
        /\ Len(limbFkCntrls) = Len(limbIkChain)
        /\ \A i \in 1..Len(limbFkCntrls) :
              /\ RotOf(scene, limbFkCntrls[i]) = RotOf(From, limbIkChain[i])
              /\ RotOf(scene, limbIkChain[i]) = RotOf(From, limbIkChain[i])
        /\ [scene EXCEPT !.attr = AttrsBut(scene, Range(limbFkCntrls))]
              = [From EXCEPT !.attr = AttrsBut(From, Range(limbFkCntrls))]
        /\ \A n \in {limbIkCntrl, limbPvCntrl, call.out[4]} : WorldOf(scene, n) = WorldOf(From, n)
        /\ GetAttr(scene, call.switch, Switch) = GetAttr(From, call.switch, Switch)
        /\ snapFKtoIK(scene, limbFkCntrls, limbIkChain) = scene

\* the IK controller was dragged and turned, the FK controllers were at
\* rest, and the snap has turned them
C11_Witness ==
    /\ Snapped("snapFKtoIK")
    /\ call.offset = 1
    /\ RotOf(From, limbIkChain[2]) = <<1, 3, 1>> /\ RotOf(From, limbIkChain[3]) = <<0, 0, 0>>
    /\ \A i \in 1..4 : RotOf(From, limbFkCntrls[i]) = <<0, 0, 0>>
    /\ RotOf(scene, limbFkCntrls[2]) = <<1, 3, 1>> /\ RotOf(scene, limbFkCntrls[3]) = <<0, 0, 0>>
    /\ scene # From

\* the world positions snapIKtoFK reads: fkControls[offset],
\* fkControls[offset + 1] and fkControls[-1]
P0 == WorldPos(From, At(limbFkCntrls, call.offset))
P1 == WorldPos(From, At(limbFkCntrls, call.offset + 1))
P2 == WorldPos(From, Last(limbFkCntrls))

\* the scene without the position and the rotate channels of the nodes ns
Besides(s, ns) ==
    [s EXCEPT !.pos = Restrict(@, (DOMAIN @) \ ns), !.attr = AttrsBut(s, ns)]

\* C12: snapIKtoFK puts the pole vector controller at p1 + 2 * (p1 -
\* (p0 + p2) / 2) in world space, that is at p1 + (2 * p1 - (p0 + p2)), and
\* the IK target at the world position and rotation of the last FK
\* controller; no FK controller is touched, and nothing but the IK target,
\* the pole vector controller and the rotation of the IK joints that follow
\* the target changes.
C12_SnapIKtoFKPlacesPoleVector ==
    Snapped("snapIKtoFK") =>
        /\ WorldPos(scene, limbPvCntrl)
              = VAdd(P1, VSub(VAdd(P1, P1), VAdd(P0, P2)))
        /\ WorldOf(scene, limbIkCntrl) = WorldOf(From, Last(limbFkCntrls))
        /\ \A i \in 1..Len(limbFkCntrls) :
              /\ WorldOf(scene, limbFkCntrls[i]) = WorldOf(From, limbFkCntrls[i])
              /\ RotOf(scene, limbFkCntrls[i]) = RotOf(From, limbFkCntrls[i])
              /\ PosOf(scene, limbFkCntrls[i]) = PosOf(From, limbFkCntrls[i])
        /\ Besides(scene, {limbIkCntrl, limbPvCntrl} \cup Range(limbIkChain))
              = Besides(From, {limbIkCntrl, limbPvCntrl} \cup Range(limbIkChain))
        /\ \A i \in 1..Len(limbIkChain) :
              PosOf(scene, limbIkChain[i]) = PosOf(From, limbIkChain[i])

\* the arm, its FK controllers turned by the animator, then snapped: the
\* pole vector controller has left the elbow and the IK controller has
\* turned with the hand controller
C12_Witness ==
    /\ Snapped("snapIKtoFK")
    /\ call.offset = 1
    /\ \E i \in 1..Len(limbFkCntrls) : RotOf(From, limbFkCntrls[i]) # <<0, 0, 0>>
    /\ P2 # PosOf(From, Last(limbFkCntrls))
    /\ WorldPos(scene, limbPvCntrl) # WorldPos(From, limbPvCntrl)
    /\ WorldPos(scene, limbPvCntrl) # P1
    /\ WorldOf(scene, limbIkCntrl) # WorldOf(From, limbIkCntrl)

\* the bent knee p0 = (0, 10, 0), p1 = (0, 5, -2), p2 = (0, 0, 0), in half units
BentKnee == <<<<0, 20, 0>>, <<0, 10, -4>>, <<0, 0, 0>>>>

\* C13 as stated: for the bent knee snapIKtoFK computes mean = (0, 5, 0)
\* and dir = (0, 0, -2) and puts the pole vector controller at (0, 5, -4).
C13_PoleVectorAtMinusFour ==
    (Snapped("snapIKtoFK") /\ <<P0, P1, P2>> = BentKnee) =>
        /\ meanPos2(P0, P2) = <<0, 20, 0>>
        /\ dir2(P1, meanPos2(P0, P2)) = <<0, 0, -8>>
        /\ WorldPos(scene, limbPvCntrl) = <<0, 10, -8>>

\* C13 amended: for the bent knee snapIKtoFK computes mean = (0, 5, 0) and
\* dir = (0, 0, -2) and puts the pole vector controller at p1 + dir * 2 =
\* (0, 5, -6): -2 + 2 * (-2) is -6.
C13_PoleVectorAtMinusSix ==
    (Snapped("snapIKtoFK") /\ <<P0, P1, P2>> = BentKnee) =>
        /\ meanPos2(P0, P2) = <<0, 20, 0>>
        /\ dir2(P1, meanPos2(P0, P2)) = <<0, 0, -8>>
        /\ WorldPos(scene, limbPvCntrl) = <<0, 10, -12>>

\* the leg at rest on the bent knee, snapped
C13_Witness ==
    /\ Snapped("snapIKtoFK") /\ <<P0, P1, P2>> = BentKnee
    /\ call.offset = 0
    /\ PosOf(From, limbPvCntrl) = <<0, 10, -4>>
    /\ PosOf(scene, limbPvCntrl) = <<0, 10, -12>>

\* snapFKtoIK and then at once snapIKtoFK; Before is the scene the two
\* calls started from
RoundTrip ==
    /\ LimbBuilt /\ Len(call.hist) = 2
    /\ call.hist[1][1] = "snapFKtoIK" /\ call.hist[2][1] = "snapIKtoFK"
Before == call.hist[1][2]

\* the IK joints the solver bends, in s: start, middle and end
IKBent(s) ==
    ~Collinear(WorldPos(s, At(limbIkChain, call.offset)),
               WorldPos(s, At(limbIkChain, call.offset + 1)),
               WorldPos(s, Last(limbIkChain)))

\* C14: when the IK chain is not collinear, snapFKtoIK followed at once by
\* snapIKtoFK leaves the IK target, the node passed as ikHandle, at the
\* world position and rotation it had before the two calls.
C14_RoundTripKeepsTarget ==
    (RoundTrip /\ IKBent(Before)) =>
        WorldOf(scene, limbIkCntrl) = WorldOf(Before, limbIkCntrl)

\* the IK controller dragged and turned on the arm, so that the IK joints
\* are bent and turned while the FK controllers are at rest, then the two
\* snaps: the FK controllers have taken the pose and the target is where it
\* was, away from its rest place
C14_Witness ==
    /\ RoundTrip /\ IKBent(Before) /\ call.offset = 1
    /\ RotOf(Before, At(limbIkChain, 1)) # <<0, 0, 0>>
    /\ RotOf(Before, limbIkCntrl) # <<0, 0, 0>>
    /\ WorldPos(Before, limbIkCntrl) # PosOf(call.hist[1][2], Last(call.chain))
    /\ \A i \in 1..Len(limbFkCntrls) : RotOf(Before, limbFkCntrls[i]) = <<0, 0, 0>>
    /\ WorldOf(scene, Last(limbFkCntrls)) = WorldOf(Before, limbIkCntrl)
    /\ WorldOf(scene, limbIkCntrl) = WorldOf(Before, limbIkCntrl)

\* the IK joints have followed the IK controller in every state
LimbSolved ==
    LimbBuilt => \A h \in Handles(scene) :
                    \A c \in Drivers(scene, "pointConstraint", h) : Reached(scene, h, c)

\* twice p1 - (p0 + p2) / 2 for the positions snapIKtoFK reads
Dir2 == VSub(VAdd(P1, P1), VAdd(P0, P2))

\* C19 as stated: whenever p0, p1 and p2 are collinear, dir is the zero
\* vector and the pole vector controller is put on p1.
C19_CollinearDirIsZero ==
    (Snapped("snapIKtoFK") /\ Collinear(P0, P1, P2)) =>
        /\ Dir2 = <<0, 0, 0>>
        /\ WorldPos(scene, limbPvCntrl) = P1

\* C19 amended: whenever p0, p1 and p2 are collinear, snapIKtoFK completes,
\* dir = p1 - (p0 + p2) / 2 lies along the chain and is the zero vector
\* exactly when p1 is half way between p0 and p2, and the pole vector
\* controller is put at p1 + dir * 2, on the line through the chain.
C19_CollinearDirAlongChain ==
    (Snapped("snapIKtoFK") /\ Collinear(P0, P1, P2)) =>
        /\ call.err = NoErr
        /\ Cross(Dir2, VSub(P2, P0)) = <<0, 0, 0>>
        /\ Dir2 = <<0, 0, 0>> <=> VAdd(P1, P1) = VAdd(P0, P2)
        /\ WorldPos(scene, limbPvCntrl) = VAdd(P1, Dir2)
        /\ Collinear(P0, P1, WorldPos(scene, limbPvCntrl))

\* a straight limb whose middle joint is nearer its start than its end,
\* snapped: dir is not zero and the pole vector controller is off p1
C19_Witness ==
    /\ Snapped("snapIKtoFK") /\ Collinear(P0, P1, P2)
    /\ VAdd(P1, P1) # VAdd(P0, P2)
    /\ Dir2 # <<0, 0, 0>>
    /\ WorldPos(scene, limbPvCntrl) # P1
    /\ WorldPos(scene, limbPvCntrl) # WorldPos(From, limbPvCntrl)

\* createFKIKAccessories has just returned; From is the scene it was called on
Returned == call.fn = "createFKIKAccessories" /\ call.pc = "accessories"

\* dup is chain copied under prefix: as long as chain, named
\* <prefix>_<joint>, and each copy but the last has the next copy as its
\* only child among the joints
CopyOf(s, dup, chain, prefix) ==
    /\ Len(dup) = Len(chain)
    /\ \A i \in 1..Len(chain) :
          /\ dup[i] = prefix \o "_" \o chain[i]
          /\ Exists(s, dup[i]) /\ s.kind[dup[i]] = "joint"
          /\ {k \in Range(s.kids[dup[i]]) : s.kind[k] = "joint"}
                = IF i < Len(chain) THEN {dup[i + 1]} ELSE {}
    /\ \A i \in 1..(Len(chain) - 1) : ParentOf(s, dup[i + 1]) = dup[i]

\* C20: createFKIKAccessories returns an fk chain and an ik chain as long as
\* the chain it is given, each linear and named fk_<prefix>_<joint> and
\* ik_<prefix>_<joint>, and one FK controller per joint of the chain, and
\* every joint of the chain it was given keeps its parent.
C20_AccessoriesCopyTheChain ==
    Returned =>
        /\ call.err = NoErr
        /\ CopyOf(scene, call.out[1], call.chain, "fk_" \o call.prefix)
        /\ CopyOf(scene, call.out[2], call.chain, "ik_" \o call.prefix)
        /\ Len(call.out[3]) = Len(call.chain)
        /\ \A i \in 1..Len(call.chain) :
              /\ call.out[3][i] = Ctrl(call.out[1][i])
              /\ Exists(scene, call.out[3][i])
              /\ ~Exists(From, call.out[3][i])
        /\ \A i, j \in 1..Len(call.chain) : call.out[3][i] = call.out[3][j] => i = j
        /\ \A i \in 1..Len(call.chain) :
              ParentOf(scene, call.chain[i]) = ParentOf(From, call.chain[i])

\* the arm, four joints from the clavicle under the pelvis, has its copies
C20_Witness ==
    /\ Returned /\ call.err = NoErr
    /\ call.chain = armChain("_l")
    /\ call.out[1][4] = "fk_arm_l_hand_l" /\ call.out[2][1] = "ik_arm_l_clavicle_l"
    /\ ParentOf(scene, "fk_arm_l_hand_l") = "fk_arm_l_lowerArm_l"
    /\ ParentOf(scene, "ik_arm_l_clavicle_l") = "pelvis"
    /\ ParentOf(scene, "hand_l") = "lowerArm_l"
    /\ call.out[3][4] = "ctrl_fk_arm_l_hand_l"
    /\ ~Exists(From, "fk_arm_l_hand_l")

-----------------------------------------------------------------------------
(* The window and the scene: the user clicks the buttons and sets the      *)
(* check boxes and radio buttons that are enabled, moves markers in the    *)
(* viewport (at most MaxMoves times, a marker of MovedMarkers by MoveBy)   *)
(* and sets the FKIK_Switch attribute of a switch.  call.err is the        *)
(* exception the last handler left, if any.                                *)

MaxMoves == 1
MovedMarkers == {"lowerArm_l"}
MoveBy == <<2, 0, 2>>

Init ==
    /\ scene = EmptyScene
    /\ self = initSelf
    /\ gui = initUI
    /\ call = [fn |-> "window", err |-> NoErr, moves |-> 0]

W == [scene |-> scene, self |-> self, gui |-> gui, err |-> NoErr, fault |-> FALSE]

Run(w) ==
    /\ scene' = w.scene
    /\ self' = w.self
    /\ gui' = w.gui
    /\ call' = [call EXCEPT !.err = w.err]

\* the radio buttons Half-Body and Full-Body exclude each other
SelectBody ==
    /\ call.fn = "window" /\ gui.createMarkersGroupBox
    /\ gui' = [gui EXCEPT !.fullBodyRadioButton = ~@, !.halfBodyRadioButton = ~@]
    /\ UNCHANGED <<scene, self, call>>

ToggleSplineSpine ==
    /\ call.fn = "window" /\ gui.createMarkersGroupBox
    /\ gui' = [gui EXCEPT !.splineSpineCheckbox = ~@]
    /\ UNCHANGED <<scene, self, call>>

CreateMarkersBtnClicked ==
    /\ call.fn = "window" /\ gui.createMarkersGroupBox
    /\ \E w \in {onCreateMarkersBtnClicked(W)} : Run(w)

UserMoveMarker ==
    /\ call.fn = "window" /\ call.moves < MaxMoves
    /\ \E m \in MovedMarkers \cap Locators(scene) :
          scene' = SetPos(scene, m, [i \in 1..3 |-> scene.pos[m][i] + MoveBy[i]])
    /\ call' = [call EXCEPT !.moves = @ + 1]
    /\ UNCHANGED <<self, gui>>

MirrorMarkersBtnClicked ==
    /\ call.fn = "window" /\ gui.editMarkersGroupBox /\ gui.mirrorMarkersBtn
    /\ \E w \in {onMirrorMarkersBtnClicked(W)} : Run(w)

CreateSkeletonBtnClicked ==
    /\ call.fn = "window" /\ gui.tab1 /\ gui.createSkeletonBtn
    /\ \E w \in {onCreateSkeletonBtnClicked(W)} : Run(w)

ToggleUniformScale ==
    /\ call.fn = "window" /\ gui.tab1 /\ gui.rootGroupBox
    /\ gui' = [gui EXCEPT !.rootUniformScaleCheckbox = ~@]
    /\ UNCHANGED <<scene, self, call>>

CreateRootControllersBtnClicked ==
    /\ call.fn = "window" /\ gui.tab1 /\ gui.rootGroupBox
    /\ \E w \in {onCreateRootControllersBtnClicked(W)} : Run(w)

CreateSpineControllersBtnClicked ==
    /\ call.fn = "window" /\ gui.tab1 /\ gui.spineGroupBox
    /\ \E w \in {onCreateSpineControllersBtnClicked(W)} : Run(w)

CreateHeadControllersBtnClicked ==
    /\ call.fn = "window" /\ gui.tab1 /\ gui.headGroupBox
    /\ \E w \in {onCreateHeadControllersBtnClicked(W)} : Run(w)

SelectArms ==
    /\ call.fn = "window" /\ gui.tab1 /\ gui.armsGroupBox
    /\ \E m \in {"FK", "IK", "IKFK"} \ {gui.armsRadioBtn} :
          gui' = [gui EXCEPT !.armsRadioBtn = m]
    /\ UNCHANGED <<scene, self, call>>

CreateArmsControllersBtnClicked ==
    /\ call.fn = "window" /\ gui.tab1 /\ gui.armsGroupBox
    /\ \E w \in {onCreateArmsControllersBtnClicked(W)} : Run(w)

SelectLegs ==
    /\ call.fn = "window" /\ gui.tab1 /\ gui.legsGroupBox
    /\ \E m \in {"FK", "IK", "IKFK"} \ {gui.legsRadioBtn} :
          gui' = [gui EXCEPT !.legsRadioBtn = m]
    /\ UNCHANGED <<scene, self, call>>

CreateLegsControllersBtnClicked ==
    /\ call.fn = "window" /\ gui.tab1 /\ gui.legsGroupBox
    /\ \E w \in {onCreateLegsControllersBtnClicked(W)} : Run(w)

\* the radio buttons FK-IK and IK-FK exclude each other
SelectSnapOrder ==
    /\ call.fn = "window" /\ gui.tab1 /\ gui.fkIkSnappingGroupBox
    /\ gui' = [gui EXCEPT !.fkikRadioBtn = ~@]
    /\ UNCHANGED <<scene, self, call>>

ArmBtnClicked ==
    /\ call.fn = "window" /\ gui.tab1 /\ gui.fkIkSnappingGroupBox
    /\ \E side \in {"_l", "_r"} :
          /\ IF side = "_l" THEN gui.lArmBtn ELSE gui.rArmBtn
          /\ \E w \in {snapArmFKIK(W, side)} : Run(w)

LegBtnClicked ==
    /\ call.fn = "window" /\ gui.tab1 /\ gui.fkIkSnappingGroupBox
    /\ \E side \in {"_l", "_r"} :
          /\ IF side = "_l" THEN gui.lLegBtn ELSE gui.rLegBtn
          /\ \E w \in {snapLegFKIK(W, side)} : Run(w)

\* the switch controllers of the scene
Switches(s) == {c[1][1] : c \in {d \in s.conns : d[1][2] = Switch}}

\* the values of the enum FKIK_Switch: fk, ik
SwitchValues == {0, 1}

SetSwitch ==
    /\ call.fn = "window"
    /\ \E sw \in Switches(scene), v \in SwitchValues :
          /\ v # GetAttr(scene, sw, Switch)
          /\ scene' = SetAttr(scene, sw, Switch, v)
    /\ UNCHANGED <<self, gui, call>>

Next ==
    \/ SelectBody
    \/ ToggleSplineSpine
    \/ CreateMarkersBtnClicked
    \/ UserMoveMarker
    \/ MirrorMarkersBtnClicked
    \/ CreateSkeletonBtnClicked
    \/ ToggleUniformScale
    \/ CreateRootControllersBtnClicked
    \/ CreateSpineControllersBtnClicked
    \/ CreateHeadControllersBtnClicked
    \/ SelectArms
    \/ CreateArmsControllersBtnClicked
    \/ SelectLegs
    \/ CreateLegsControllersBtnClicked
    \/ SelectSnapOrder
    \/ ArmBtnClicked
    \/ LegBtnClicked
    \/ SetSwitch

Spec == Init /\ [][Next]_vars

\* no handler the window can run leaves an exception
NoException == call.fn = "window" => call.err = NoErr

-----------------------------------------------------------------------------
(* Properties of the window and the scene *)

\* the Create Skeleton handler has run to its end
SkeletonDone == ~gui.createSkeletonBtn

\* C5: once the Create Skeleton step has completed, no marker and no marker
\* group is left in the scene, every name that was a marker is a joint, and
\* this stays so through the root, spine, head, arms, legs, cleanup and snap
\* steps; no step of the window or the user takes a joint out of the scene.
C5_MarkersConsumedJointsKept ==
    /\ [](SkeletonDone =>
            /\ Locators(scene) = {}
            /\ ~Exists(scene, MarkersGrp)
            /\ \A n \in Range(self.markerNames) :
                  Exists(scene, n) /\ scene.kind[n] = "joint")
    /\ [][Joints(scene) \subseteq Joints(scene')]_vars

\* a rig after cleanup whose left arm has been snapped IK to FK: the pole
\* vector controller has left the elbow, and the joints are all there
C5_Witness ==
    /\ SkeletonDone /\ Exists(scene, "rig") /\ ~gui.legsGroupBox
    /\ Exists(scene, "ctrl_arm_l_pv")
    /\ PosOf(scene, "ctrl_arm_l_pv") # PosOf(scene, "lowerArm_l")
    /\ Cardinality(Range(self.markerNames)) = 49
    /\ Range(self.markerNames) \subseteq Joints(scene)

\* name with its '_l' suffix renamed to '_r'
SuffixRename(name) ==
    IF EndsWith(Spell[name], SufL)
    THEN Str(SubSeq(Spell[name], 1, Len(Spell[name]) - 2) \o SufR)
    ELSE name

\* (x, y, z) with X negated
NegateX(p) == <<-p[1], p[2], p[3]>>

\* the step is a run of onMirrorMarkersBtnClicked
MirrorStep ==
    gui.editMarkersGroupBox /\ gui.mirrorMarkersBtn /\ ~gui'.mirrorMarkersBtn

\* C6: defaultRightMarkers has the length and order of defaultLeftMarkers,
\* each entry being the left marker with its '_l' suffix renamed to '_r',
\* X negated, Y and Z kept, and negating X again gives the left position
\* back; a click on Mirror Markers leaves, for every '_l' marker of the
\* scene, the marker of the renamed name at the left marker's position with
\* X negated, and leaves the left marker where it was.
C6_RightIsMirrorOfLeft ==
    /\ Len(defaultRightMarkers) = Len(defaultLeftMarkers)
    /\ \A i \in 1..Len(defaultLeftMarkers) :
          /\ EndsWith(Spell[defaultLeftMarkers[i][1]], SufL)
          /\ defaultRightMarkers[i][1] = SuffixRename(defaultLeftMarkers[i][1])
          /\ defaultRightMarkers[i][2] = NegateX(defaultLeftMarkers[i][2])
          /\ defaultRightMarkers[i][2][2] = defaultLeftMarkers[i][2][2]
          /\ defaultRightMarkers[i][2][3] = defaultLeftMarkers[i][2][3]
          /\ NegateX(defaultRightMarkers[i][2]) = defaultLeftMarkers[i][2]
    /\ [][MirrorStep =>
            \A m \in Locators(scene) :
               EndsWith(Spell[m], SufL) =>
                  /\ SuffixRename(m) \in Locators(scene')
                  /\ scene'.pos[SuffixRename(m)] = NegateX(scene.pos[m])
                  /\ scene'.pos[m] = scene.pos[m]]_vars

\* the markers of a half body after the user moved lowerArm_l and clicked
\* Mirror Markers: lowerArm_r is at the moved position, mirrored
C6_Witness ==
    /\ gui.halfBodyRadioButton /\ gui.editMarkersGroupBox /\ ~gui.mirrorMarkersBtn
    /\ "lowerArm_r" \in Locators(scene)
    /\ scene.pos["lowerArm_l"] = <<74, 258, -9>>
    /\ scene.pos["lowerArm_r"] = <<-74, 258, -9>>

Limbs == {"arm", "leg"}

\* the limbs and sides whose switch createFKIKSwitch has returned
Switched ==
    {x \in Limbs \X {"_l", "_r"} :
        /\ (x[1] \o "Switches") \in DOMAIN self
        /\ x[2] \in DOMAIN self[x[1] \o "Switches"]}

\* the constraints on n that drive its orientation
OrientationDrivers(s, n) ==
    {c \in ConstraintsOn(s, n) :
        s.cons[c].type \in {"orientConstraint", "parentConstraint", "aimConstraint"}}

\* C9: for every switch that has been created and every index i of its bind
\* chain, the orientation of the bind joint is driven by one orient
\* constraint whose targets are fkChain[i] and ikChain[i]; its IK weight
\* (w1) is the value w of the switch attribute and its FK weight (w0) is
\* 1 - w, so the two weights add up to 1 whatever the switch is set to.
C9_WeightsAreComplementary ==
    \A x \in Switched :
       LET sw == self[x[1] \o "Switches"][x[2]]
           bindChain == self[x[1] \o "Chains"][x[2]]
           fkChain == self[x[1] \o "FkChains"][x[2]]
           ikChain == self[x[1] \o "IkChains"][x[2]]
           w == GetAttr(scene, sw, Switch)
       IN  /\ w \in SwitchValues
           /\ Len(fkChain) = Len(bindChain) /\ Len(ikChain) = Len(bindChain)
           /\ \A i \in 1..Len(bindChain) :
                 /\ Cardinality(OrientationDrivers(scene, bindChain[i])) = 1
                 /\ \A oc \in OrientationDrivers(scene, bindChain[i]) :
                       /\ scene.cons[oc].type = "orientConstraint"
                       /\ scene.cons[oc].targets = <<fkChain[i], ikChain[i]>>
                       /\ GetAttr(scene, oc, "w1") = w
                       /\ GetAttr(scene, oc, "w0") = 1 - w
                       /\ GetAttr(scene, oc, "w0") + GetAttr(scene, oc, "w1") = 1

\* the left arm on IK and the left leg on FK, both with a switch
C9_Witness ==
    /\ <<"arm", "_l">> \in Switched /\ <<"leg", "_l">> \in Switched
    /\ GetAttr(scene, "arm_l_switch", Switch) = 1
    /\ GetAttr(scene, "leg_l_switch", Switch) = 0
    /\ GetAttr(scene, "hand_l_orientConstraint1", "w1") = 1
    /\ GetAttr(scene, "hand_l_orientConstraint1", "w0") = 0
    /\ GetAttr(scene, "knee_l_orientConstraint1", "w0") = 1

\* the nodes whose visibility is set or driven
VisibilityDriven(s) ==
    {c[2][1] : c \in {d \in s.conns : d[2][2] = "visibility"}}
    \cup {a[1] : a \in {b \in DOMAIN s.attr : b[2] = "visibility"}}

\* a node is hidden when its visibility or that of a node above it is off
Hidden(s) ==
    LET off == {n \in VisibilityDriven(s) : GetAttr(s, n, "visibility") # 1}
    IN  off \cup UNION {Descendants(s, h) : h \in off}

\* C10: for every switch that has been created, whatever its attribute is
\* set to, the FK controllers are shown exactly when the switch is 0 (fk)
\* and the IK start, IK and pole vector controllers exactly when it is
\* 1 (ik): the two groups are never shown together nor hidden together.
C10_ControllersFollowSwitch ==
    \A x \in Switched :
       LET sw == self[x[1] \o "Switches"][x[2]]
           fkCntrls == Range(self[x[1] \o "FkCntrls"][x[2]])
           ikCntrls == {self[x[1] \o "StartCntrls"][x[2]],
                        self[x[1] \o "IkCntrls"][x[2]],
                        self[x[1] \o "PvCntrls"][x[2]]}
           w == GetAttr(scene, sw, Switch)
           hidden == Hidden(scene)
       IN  /\ fkCntrls # {}
           /\ \A c \in fkCntrls : c \notin hidden <=> (w = 0)
           /\ \A c \in ikCntrls : c \notin hidden <=> (w = 1)
           /\ \A f \in fkCntrls, c \in ikCntrls : (f \in hidden) # (c \in hidden)

\* the right leg switched to IK after cleanup: its IK controllers are shown
\* and its FK controllers hidden, while the left leg shows its FK ones
C10_Witness ==
    /\ <<"leg", "_r">> \in Switched /\ Exists(scene, "rig")
    /\ GetAttr(scene, "leg_r_switch", Switch) = 1
    /\ GetAttr(scene, "leg_l_switch", Switch) = 0
    /\ {"ctrl_leg_r_ik", "ctrl_leg_r_pv", "ctrl_leg_r_start_ik",
        "ctrl_fk_leg_l_knee_l"} \cap Hidden(scene) = {}
    /\ {"ctrl_fk_leg_r_knee_r", "ctrl_leg_l_ik"} \subseteq Hidden(scene)

-----------------------------------------------------------------------------
(* The spline spine *)

\* the Create Spine handler has just run IK.createSplineSpineIK: the head
\* group box is enabled from then until the Create Head handler runs
SplineSpineMade == call.fn = "window" /\ gui.headGroupBox /\ self.splineSpine

KidSet(s, n) == Range(s.kids[n])

\* the nodes of the ownership tree of createSplineSpineIK(..., name)
SplineNodes(name) ==
    {name \o "_grp", name, name \o "_curve", name \o "_bodyCtrl", name \o "_lowerCtrl",
     name \o "_middleCtrl", name \o "_upperCtrl", name \o "_lowerClusterHandle",
     name \o "_upperClusterHandle"}

\* C15: after IK.createSplineSpineIK the group owns the spline handle, the
\* curve and bodyCtrl, bodyCtrl owns lowerCtrl and middleCtrl, lowerCtrl owns
\* the lower cluster, middleCtrl owns upperCtrl, upperCtrl owns the upper
\* cluster, and nothing else is owned by any of them; each of these nodes
\* has one parent (the group's is the world when the function returns, and
\* the last root controller once the handler has parented it), and the
\* function returns (bodyCtrl, middleCtrl, lowerCtrl, upperCtrl, group).
C15_SplineSpineOwnership ==
    SplineSpineMade =>
        /\ call.err = NoErr
        /\ self.spineControls = <<"spine_ik_bodyCtrl", "spine_ik_middleCtrl",
                                  "spine_ik_lowerCtrl", "spine_ik_upperCtrl",
                                  "spine_ik_grp">>
        /\ KidSet(scene, "spine_ik_grp")
              = {"spine_ik", "spine_ik_curve", "spine_ik_bodyCtrl"}
        /\ KidSet(scene, "spine_ik_bodyCtrl") = {"spine_ik_lowerCtrl", "spine_ik_middleCtrl"}
        /\ KidSet(scene, "spine_ik_lowerCtrl") = {"spine_ik_lowerClusterHandle"}
        /\ KidSet(scene, "spine_ik_middleCtrl") = {"spine_ik_upperCtrl"}
        /\ KidSet(scene, "spine_ik_upperCtrl") = {"spine_ik_upperClusterHandle"}
        /\ \A n \in {"spine_ik", "spine_ik_curve", "spine_ik_lowerClusterHandle",
                     "spine_ik_upperClusterHandle"} : KidSet(scene, n) = {}
        /\ \A n \in SplineNodes("spine_ik") :
              /\ Cardinality(Parents(scene, n)) = 1
              /\ Len(SelectSeq(scene.kids[ParentOf(scene, n)], LAMBDA k : k = n)) = 1
        /\ ParentOf(scene, "spine_ik_grp") = Last(self.rootControls)

\* the spline spine has been made on the full body
C15_Witness ==
    /\ SplineSpineMade /\ call.err = NoErr
    /\ Len(self.spineControls) = 5
    /\ ParentOf(scene, "spine_ik_upperClusterHandle") = "spine_ik_upperCtrl"
    /\ ParentOf(scene, "spine_ik_upperCtrl") = "spine_ik_middleCtrl"
    /\ ParentOf(scene, "spine_ik_middleCtrl") = "spine_ik_bodyCtrl"
    /\ ParentOf(scene, "spine_ik_bodyCtrl") = "spine_ik_grp"
    /\ ParentOf(scene, "spine_ik_grp") = "ctrl_pelvis"
    /\ Exists(scene, "spine9")

-----------------------------------------------------------------------------
(* Uniform scaling *)

\* the world the Create Legs handler leaves when cleanup does not call
\* createUnifromScaling: the scene createUnifromScaling is called on
Unscaled == onCreateLegsControllersBtnClicked([W EXCEPT !.self.scaleUniform = FALSE])

\* the nodes createUnifromScaling finds beside and below the offset node of
\* the root controller
Moved(s, rootCntrl, parentGrp) ==
    (KidSet(s, parentGrp) \ {rootCntrl \o "_parent"})
    \cup (KidSet(s, rootCntrl \o "_parent") \ {rootCntrl})

\* the nodes of the DAG: utility nodes have no place in it
Dag(s) == DOMAIN s.kids \ {World}

IsTree(s) ==
    /\ Dag(s) \subseteq DOMAIN s.kind
    /\ \A n \in Dag(s) :
          /\ Cardinality(Parents(s, n)) = 1
          /\ Len(SelectSeq(s.kids[ParentOf(s, n)], LAMBDA k : k = n)) = 1
    /\ Descendants(s, World) = Dag(s)

\* the step of the Create Legs handler with uniform scaling chosen
ScalingStep == call.fn = "window" /\ gui.legsGroupBox /\ ~gui'.legsGroupBox
               /\ self.scaleUniform

\* C16: after createUnifromScaling(rootCntrl, parentGrp) the only child of
\* the rig group is the offset node of the root controller, its only child
\* is the root controller, every node that was beside the offset node under
\* the rig group or beside the root controller under the offset node is a
\* child of the root controller, every other node has the parent it had,
\* and the scene is a tree over the same nodes.
C16_UniformScalingReparents ==
    [][ScalingStep =>
          LET before == Unscaled.scene
              rootCntrl == At(self.rootControls, 0)
              moved == Moved(before, rootCntrl, "rig")
          IN  /\ call'.err = NoErr
              /\ scene'.kids["rig"] = <<rootCntrl \o "_parent">>
              /\ scene'.kids[rootCntrl \o "_parent"] = <<rootCntrl>>
              /\ \A n \in moved : ParentOf(scene', n) = rootCntrl
              /\ \A n \in Dag(before) \ moved :
                    ParentOf(scene', n) = ParentOf(before, n)
              /\ Dag(scene') = Dag(before)
              /\ DOMAIN scene'.kind = DOMAIN before.kind
              /\ IsTree(before) /\ IsTree(scene')]_vars

\* IK-FK arms and legs with uniform scaling: the skeleton, the handles, the
\* switches and the controllers of the IK side are under the root controller
C16_Witness ==
    /\ call.fn = "window" /\ call.err = NoErr
    /\ Exists(scene, "rig") /\ self.scaleUniform
    /\ self.isLegFKIK /\ self.isArmFKIK
    /\ scene.kids["rig"] = <<"ctrl_root_parent">>
    /\ scene.kids["ctrl_root_parent"] = <<"ctrl_root">>
    /\ {"root", "leg_l_ik", "arm_r_ik", "leg_l_switch", "arm_r_switch"}
          \subseteq KidSet(scene, "ctrl_root")
    /\ Cardinality(KidSet(scene, "ctrl_root")) > 12

-----------------------------------------------------------------------------
(* The order of the stages *)

\* the stages: Markers, Skeleton, Root, Spine, Head, Arms, Legs, and the
\* FK/IK snap as the eighth
Stages == 1..7
Snap == Cardinality(Stages) + 1

\* the handler of stage k can fire: its button can be clicked
Open(k) ==
    IF k = 1 THEN gui.createMarkersGroupBox
    ELSE gui.tab1 /\ CASE k = 2 -> gui.createSkeletonBtn
                       [] k = 3 -> gui.rootGroupBox
                       [] k = 4 -> gui.spineGroupBox
                       [] k = 5 -> gui.headGroupBox
                       [] k = 6 -> gui.armsGroupBox
                       [] k = 7 -> gui.legsGroupBox
                       [] k = 8 -> gui.fkIkSnappingGroupBox

Has(s, k) == k \in DOMAIN s

\* the handler of stage k has run to its end: what it alone leaves behind,
\* in sf, the attributes of the instance, and in s, the scene
Done(sf, s, k) ==
    CASE k = 1 -> sf.markers # None
      [] k = 2 -> Has(sf, "skeleton")
      [] k = 3 -> Has(sf, "rootControls") /\ Has(sf, "scaleUniform")
      [] k = 4 -> Has(sf, "spineControls")
      [] k = 5 -> Has(sf, "headControls")
      [] k = 6 -> Has(sf, "leftArmControls") \/ Has(sf, "ikControl") \/ sf.isArmFKIK
      [] k = 7 -> Exists(s, "rig")

\* the attributes the handler of stage k reads
Reads(k) ==
    CASE k = 1 -> {}
      [] k = 2 -> {"markers"}
      [] k = 3 -> {}
      [] k = 4 -> {"splineSpine", "rootControls"}
      [] k = 5 -> {"spineControls"}
      [] k = 6 -> {"spineControls", "rootControls"}
      [] k = 7 -> {"rootControls", "skeleton", "scaleUniform", "isLegFKIK", "isArmFKIK"}
      [] k = 8 -> {}

\* in every state: a handler that can fire has not fired yet, every earlier
\* stage has completed and the attributes it reads are set; the snap buttons
\* can be clicked only when every stage has completed; the completed stages
\* are the first ones; no handler has left an exception
InOrder ==
    /\ call.err = NoErr
    /\ \A k \in Stages :
          /\ Open(k) => /\ ~Done(self, scene, k)
                        /\ \A j \in 1..(k - 1) : Done(self, scene, j)
                        /\ Reads(k) \subseteq DOMAIN self
          /\ Done(self, scene, k) => \A j \in 1..(k - 1) : Done(self, scene, j)
    /\ Open(Snap) => \A j \in Stages : Done(self, scene, j)

\* in every step: a completed stage stays completed, and a stage completes
\* only in a step from a state in which its handler can fire, on its own
OneAtATime ==
    \A k \in Stages :
       /\ Done(self, scene, k) => Done(self', scene', k)
       /\ (~Done(self, scene, k) /\ Done(self', scene', k))
             => /\ Open(k) /\ ~Open(k)'
                /\ \A j \in Stages \ {k} : Done(self', scene', j) = Done(self, scene, j)

-----------------------------------------------------------------------------
(* The three joints of an IK/FK limb *)

Sides == {"_l", "_r"}

\* the limb has been built in IK/FK mode
BuiltFKIK(limb) == IF limb = "arm" THEN self.isArmFKIK ELSE self.isLegFKIK

\* ikOffset at the call site of createFKIKAccessories and offset at the call
\* site of snapIKtoFK, as the claim states them
SpanOffset(limb) == IF limb = "arm" THEN 1 ELSE 0

\* the joints from the start joint of handle h down to its end effector
Span(s, h) ==
    Append(Bones(s, s.cons[h].targets[1], s.cons[h].targets[2]), s.cons[h].targets[2])

\* where snapIKtoFK puts the pole vector controller when it reads p0, p1, p2
PoleAt(p0, p1, p2) == VAdd(p1, VSub(VAdd(p1, p1), VAdd(p0, p2)))

\* C21: on an arm (four joints, ikOffset 1) and on a leg (three joints,
\* ikOffset 0) built in IK/FK mode, the IK handle spans three joints of the
\* ik chain, the last three; the pole vector controller rests on the middle
\* one, which is not the end joint; the controllers at offset, offset + 1 and
\* -1 of the FK controller list are three different controllers, those of the
\* copies of the same three bind joints, and a snap to FK reads them: it
\* leaves the pole vector controller where their positions put it.
C21_HandleSpansThreeJoints ==
    \A limb \in Limbs, side \in Sides :
       (call.fn = "window" /\ BuiltFKIK(limb)) =>
          LET chain == self[limb \o "Chains"][side]
              fk == self[limb \o "FkChains"][side]
              ik == self[limb \o "IkChains"][side]
              cs == self[limb \o "FkCntrls"][side]
              pv == self[limb \o "PvCntrls"][side]
              h == limb \o side \o "_ik"
              off == SpanOffset(limb)
              three == {off + 1, off + 2, off + 3}
          IN  /\ Len(chain) = off + 3 /\ Len(ik) = off + 3 /\ Len(cs) = off + 3
              /\ h \in Handles(scene)
              /\ Span(scene, h) = <<ik[off + 1], ik[off + 2], ik[off + 3]>>
              /\ Drivers(scene, "poleVectorConstraint", h) = {pv}
              /\ PosOf(scene, ik[off + 2]) # PosOf(scene, ik[off + 3])
              /\ \A i \in three :
                    /\ cs[i] = Ctrl(fk[i])
                    /\ fk[i] = "fk_" \o limb \o side \o "_" \o chain[i]
                    /\ ik[i] = "ik_" \o limb \o side \o "_" \o chain[i]
                    /\ WorldPos(scene, cs[i]) = WorldPos(scene, ik[i])
              /\ \A i, j \in three : cs[i] = cs[j] => i = j
              /\ WorldPos(scene, pv)
                    \in {WorldPos(scene, ik[off + 2]),
                         PoleAt(WorldPos(scene, cs[off + 1]), WorldPos(scene, cs[off + 2]),
                                WorldPos(scene, cs[off + 3]))}

\* arms and legs in IK/FK mode, and the left arm snapped to FK: its pole
\* vector controller has left the elbow
C21_Witness ==
    /\ call.fn = "window" /\ call.err = NoErr
    /\ self.isArmFKIK /\ self.isLegFKIK
    /\ Span(scene, "arm_l_ik")
          = <<"ik_arm_l_upperArm_l", "ik_arm_l_lowerArm_l", "ik_arm_l_hand_l">>
    /\ Span(scene, "leg_r_ik") = <<"ik_leg_r_thigh_r", "ik_leg_r_knee_r", "ik_leg_r_foot_r">>
    /\ WorldPos(scene, "ctrl_arm_l_pv") # WorldPos(scene, "ik_arm_l_lowerArm_l")
    /\ WorldPos(scene, "ctrl_arm_r_pv") = WorldPos(scene, "ik_arm_r_lowerArm_r")

-----------------------------------------------------------------------------
(* When the uniform-scale re-parenting runs *)

\* what createUnifromScaling leaves: the skeleton under the root controller
Scaled(s) ==
    /\ Exists(s, "rig") /\ Exists(s, "ctrl_root")
    /\ ParentOf(s, At(self.skeleton, 0)) = "ctrl_root"

\* the children of the root controller, once it is there
RootKids(s) == IF Exists(s, "ctrl_root") THEN s.kids["ctrl_root"] ELSE <<>>

\* the nodes of the accessories and the switch of a limb built in IK/FK mode
Accessories(sf, limb, side) ==
    Range(sf[limb \o "FkChains"][side]) \cup Range(sf[limb \o "IkChains"][side])
    \cup Range(sf[limb \o "FkCntrls"][side])
    \cup {sf[limb \o "StartCntrls"][side], sf[limb \o "IkCntrls"][side],
          sf[limb \o "PvCntrls"][side], sf[limb \o "Switches"][side],
          limb \o side \o "_ik"}

\* in every state: the re-parenting has been done exactly when cleanup has
\* run and self.scaleUniform holds
ScaledWhenChosen ==
    /\ Scaled(scene) => Done(self, scene, 7) /\ self.scaleUniform
    /\ (Done(self, scene, 7) /\ self.scaleUniform) => Scaled(scene)

\* in every step: the Create Root handler records the check box, nothing
\* changes the record afterwards, and what is under the root controller
\* changes only in the step of the Create Legs handler, on a scene that has
\* every accessory and switch of the limbs built in IK/FK mode and to which
\* nothing is added afterwards
ScaledOnce ==
    /\ (Open(3) /\ ~Open(3)') => self'.scaleUniform = gui.rootUniformScaleCheckbox
    /\ Has(self, "scaleUniform")
          => Has(self', "scaleUniform") /\ self'.scaleUniform = self.scaleUniform
    /\ (Exists(scene, "ctrl_root") /\ RootKids(scene') # RootKids(scene))
          => /\ Open(7) /\ ~Open(7)'
             /\ ~Scaled(scene) /\ Scaled(scene')
             /\ \A limb \in Limbs, side \in Sides :
                   BuiltFKIK(limb)' =>
                      Accessories(self', limb, side) \subseteq DOMAIN Unscaled.scene.kind
             /\ DOMAIN scene'.kind = DOMAIN Unscaled.scene.kind
    /\ Scaled(scene) => scene'.kids = scene.kids

\* C22: createUnifromScaling runs at most once, inside cleanup at the end of
\* the Legs stage, when every FK/IK accessory and switch of arms and legs is
\* there, and it runs if and only if the Uniform Scale check box was checked
\* when the Create Root handler ran.
C22_ScalingOnceAfterAccessories == []ScaledWhenChosen /\ [][ScaledOnce]_vars

\* uniform scaling on a rig with IK/FK arms and legs: the switches are under
\* the root controller
C22_Witness ==
    /\ call.fn = "window" /\ call.err = NoErr
    /\ Scaled(scene) /\ self.scaleUniform
    /\ self.isArmFKIK /\ self.isLegFKIK
    /\ ParentOf(scene, "arm_l_switch") = "ctrl_root"
    /\ ParentOf(scene, "leg_r_switch") = "ctrl_root"
    /\ gui.rootUniformScaleCheckbox

-----------------------------------------------------------------------------
(* The window in a session where Maya can refuse a command: up to          *)
(* MaxFaults clicks of a stage button run their handler in a world whose   *)
(* builder call raises.  The exception is printed and the window stays     *)
(* open; call.failed is the stage of the last such click.                  *)

MaxFaults == 1

InitFault ==
    /\ scene = EmptyScene
    /\ self = initSelf
    /\ gui = initUI
    /\ call = [fn |-> "window", err |-> NoErr, moves |-> 0, faults |-> 0, failed |-> 0]

Faulty == [W EXCEPT !.fault = TRUE]

RunFault(w, k) ==
    /\ call.faults < MaxFaults
    /\ scene' = w.scene
    /\ self' = w.self
    /\ gui' = w.gui
    /\ call' = [call EXCEPT !.err = w.err, !.faults = @ + 1, !.failed = k]

CreateMarkersFails ==
    /\ call.fn = "window" /\ Open(1)
    /\ \E w \in {onCreateMarkersBtnClicked(Faulty)} : RunFault(w, 1)

CreateSkeletonFails ==
    /\ call.fn = "window" /\ Open(2)
    /\ \E w \in {onCreateSkeletonBtnClicked(Faulty)} : RunFault(w, 2)

CreateRootControllersFails ==
    /\ call.fn = "window" /\ Open(3)
    /\ \E w \in {onCreateRootControllersBtnClicked(Faulty)} : RunFault(w, 3)

CreateSpineControllersFails ==
    /\ call.fn = "window" /\ Open(4)
    /\ \E w \in {onCreateSpineControllersBtnClicked(Faulty)} : RunFault(w, 4)

CreateHeadControllersFails ==
    /\ call.fn = "window" /\ Open(5)
    /\ \E w \in {onCreateHeadControllersBtnClicked(Faulty)} : RunFault(w, 5)

CreateArmsControllersFails ==
    /\ call.fn = "window" /\ Open(6)
    /\ \E w \in {onCreateArmsControllersBtnClicked(Faulty)} : RunFault(w, 6)

CreateLegsControllersFails ==
    /\ call.fn = "window" /\ Open(7)
    /\ \E w \in {onCreateLegsControllersBtnClicked(Faulty)} : RunFault(w, 7)

NextFault ==
    \/ SelectBody
    \/ ToggleSplineSpine
    \/ CreateMarkersBtnClicked
    \/ MirrorMarkersBtnClicked
    \/ CreateSkeletonBtnClicked
    \/ CreateRootControllersBtnClicked
    \/ CreateSpineControllersBtnClicked
    \/ CreateHeadControllersBtnClicked
    \/ SelectArms
    \/ CreateArmsControllersBtnClicked
    \/ SelectLegs
    \/ CreateLegsControllersBtnClicked
    \/ CreateMarkersFails
    \/ CreateSkeletonFails
    \/ CreateRootControllersFails
    \/ CreateSpineControllersFails
    \/ CreateHeadControllersFails
    \/ CreateArmsControllersFails
    \/ CreateLegsControllersFails

SpecFault == InitFault /\ [][NextFault]_vars

\* the last click left the exception of a refused builder call of stage k
Failed(k) ==
    /\ call.fn = "window" /\ "failed" \in DOMAIN call
    /\ call.failed = k /\ call.err = "RuntimeError: Maya"

\* C24 as stated: in every stage handler, markers to legs, a builder call
\* that raises leaves the gate of the next stage closed (the Joints tab
\* with its Create Skeleton button after the markers stage, the next group
\* box after the others, the snapping group box after the legs).
C24_FailureKeepsNextGateClosed ==
    \A k \in Stages : Failed(k) => ~Open(k + 1)

\* what the handlers do: from the skeleton stage on a refused builder call
\* leaves every widget as it was, so the next gate stays closed and the
\* stage can be run again; the markers handler has by then enabled the
\* Adjust Markers box, disabled the Create Markers box and, for a full
\* body, opened the Joints tab, with self.markers still None.
FailureAfterMarkersKeepsGates ==
    /\ \A k \in Stages \ {1} : Failed(k) => Open(k) /\ ~Open(k + 1)
    /\ Failed(1) => /\ gui.editMarkersGroupBox /\ ~gui.createMarkersGroupBox
                    /\ gui.tab1 = gui.fullBodyRadioButton
                    /\ self.markers = None /\ scene = EmptyScene

C24_Witness ==
    /\ Failed(1) /\ gui.fullBodyRadioButton
    /\ gui.tab1 /\ gui.createSkeletonBtn
    /\ ~Exists(scene, MarkersGrp)


-----------------------------------------------------------------------------
(* The controllers of the head and of the FK arms and the spine *)

HeadDone == call.fn = "window" /\ Has(self, "headControls")
ArmsFKDone == call.fn = "window" /\ Has(self, "leftArmControls")

\* the controls constrained to the joint 'neck' and the clavicles hang under
SpineTopControls == Drivers(scene, "parentConstraint", ParentOf(scene, "neck"))

\* C25 as stated: after the Head stage and after the Arms stage in FK mode
\* the offset nodes of the neck controller and of the clavicle controllers
\* are descendants of the control that drives the last spine joint:
\* ctrl_spine3 with a plain spine, the spline upper control with a spline
\* spine.
C25_OffsetsUnderSpineTopControl ==
    /\ HeadDone =>
          /\ SpineTopControls
                = {IF self.splineSpine THEN "spine_ik_upperCtrl" ELSE "ctrl_spine3"}
          /\ ParentOf(scene, "clavicle_l") = ParentOf(scene, "neck")
          /\ ParentOf(scene, "clavicle_r") = ParentOf(scene, "neck")
          /\ \A d \in SpineTopControls : "ctrl_neck_parent" \in Descendants(scene, d)
    /\ ArmsFKDone =>
          \A d \in SpineTopControls :
              {"ctrl_clavicle_l_parent", "ctrl_clavicle_r_parent"}
                  \subseteq Descendants(scene, d)

\* what the handlers build: the offsets are children of the last entry of
\* self.spineControls, which is ctrl_spine3 with a plain spine and the group
\* spine_ik_grp with a spline spine; there the offsets are siblings of the
\* body control and no control of the spline spine is above them.
OffsetsUnderLastSpineControl ==
    LET top == IF self.splineSpine THEN "spine_ik_grp" ELSE "ctrl_spine3"
        offsets == (IF HeadDone THEN {"ctrl_neck_parent"} ELSE {})
                   \cup (IF ArmsFKDone
                         THEN {"ctrl_clavicle_l_parent", "ctrl_clavicle_r_parent"}
                         ELSE {})
    IN  (HeadDone \/ ArmsFKDone) =>
            /\ Last(self.spineControls) = top
            /\ \A o \in offsets :
                  /\ ParentOf(scene, o) = top
                  /\ self.splineSpine =>
                        o \notin Descendants(scene, "spine_ik_bodyCtrl")

C25_Witness ==
    /\ HeadDone /\ ArmsFKDone /\ self.splineSpine
    /\ SpineTopControls = {"spine_ik_upperCtrl"}
    /\ ParentOf(scene, "ctrl_neck_parent") = "spine_ik_grp"
    /\ ParentOf(scene, "ctrl_clavicle_r_parent") = "spine_ik_grp"
    /\ "ctrl_neck_parent" \notin Descendants(scene, "spine_ik_upperCtrl")

-----------------------------------------------------------------------------
(* The Markers tab with its sliders: the user drags a slider of the Global *)
(* Markers Adjustment box to another position, one axis at a time, and     *)
(* valueChanged runs the handler the slider is connected to.  Tab 0 is     *)
(* never disabled, so a slider can be dragged when its group box is        *)
(* enabled.                                                                *)

ScaleValues == {100, 200}
OffsetValues == {0, 10}
RotValues == {0, 90}

SlidersEnabled == gui.editMarkersGroupBox

MoveSlider(k, values, handler(_)) ==
    /\ call.fn = "window" /\ SlidersEnabled
    /\ \E i \in 1..3 : \E v \in values \ {gui[k][i]} :
          \E w \in {handler([W EXCEPT !.gui[k][i] = v])} : Run(w)

ScaleSliderMoved == MoveSlider("scaleSlider", ScaleValues, adjustMarkersScale)
OffsetSliderMoved == MoveSlider("offsetSlider", OffsetValues, adjustMarkersOffset)
RotSliderMoved == MoveSlider("rotSlider", RotValues, adjustMarkersRotation)

NextAdjust ==
    \/ SelectBody
    \/ ToggleSplineSpine
    \/ CreateMarkersBtnClicked
    \/ ScaleSliderMoved
    \/ OffsetSliderMoved
    \/ RotSliderMoved
    \/ MirrorMarkersBtnClicked
    \/ CreateSkeletonBtnClicked

SpecAdjust == Init /\ [][NextAdjust]_vars

\* C26 as stated: once the skeleton has been built and the markers deleted
\* no marker-editing operation is enabled (the scale, offset and rotation
\* sliders, Mirror Markers, Create Markers), and no handler has raised on
\* the deleted marker group.
C26_NoMarkerEditingAfterSkeleton ==
    (call.fn = "window" /\ SkeletonDone) =>
        /\ ~Exists(scene, self.markers)
        /\ ~gui.createMarkersGroupBox
        /\ ~(gui.editMarkersGroupBox /\ gui.mirrorMarkersBtn)
        /\ ~SlidersEnabled
        /\ call.err = NoErr

\* what the window does: Create Markers and Mirror Markers are disabled for
\* good, the sliders stay enabled, and a slider moved after the skeleton
\* stage raises on the deleted group and changes nothing in the scene.
SlidersOutliveMarkers ==
    (call.fn = "window" /\ SkeletonDone) =>
        /\ ~Exists(scene, self.markers)
        /\ ~gui.createMarkersGroupBox /\ ~gui.mirrorMarkersBtn
        /\ SlidersEnabled
        /\ call.err \in {NoErr, "ValueError: " \o self.markers}

C26_Witness ==
    /\ call.fn = "window" /\ SkeletonDone
    /\ SlidersEnabled /\ gui.offsetSlider = <<0, 10, 0>>
    /\ call.err = "ValueError: MarkersGrp"
    /\ ~Exists(scene, MarkersGrp) /\ "root" \in Joints(scene)

-----------------------------------------------------------------------------
(* The right-side markers and the Joints tab *)

RightNames == Range(NamesOf(defaultRightMarkers))
RightMarkers(s) == RightNames \cap Locators(s)

CanMirror == gui.editMarkersGroupBox /\ gui.mirrorMarkersBtn
CanCreateSkeleton == gui.tab1 /\ gui.createSkeletonBtn

\* in every state: no handler has raised and no name was given twice; Create
\* Skeleton can fire only with every right-side marker in the scene and in
\* the marker data, and Mirror Markers only with none of them in the scene
RightSideReady ==
    call.fn = "window" =>
        /\ call.err = NoErr
        /\ scene.clash = {}
        /\ CanCreateSkeleton =>
              /\ RightMarkers(scene) = RightNames
              /\ RightNames \subseteq DOMAIN self.markerData
              /\ ~CanMirror
        /\ CanMirror => RightNames \cap Nodes(scene) = {}

\* in every step: the Joints tab is opened only by Create Markers with
\* Full-Body checked or by Mirror Markers; the Mirror Markers button, once
\* disabled, stays disabled, and a click of it or a Full-Body creation
\* disables it; right-side markers appear in one step only, all of them at
\* once; the Create Skeleton step turns every right-side name into a joint
OpensTabOnce ==
    /\ (~gui.tab1 /\ gui'.tab1) =>
          \/ gui.createMarkersGroupBox /\ gui.fullBodyRadioButton
                /\ ~gui'.createMarkersGroupBox
          \/ CanMirror /\ ~gui'.mirrorMarkersBtn
    /\ gui.tab1 => gui'.tab1
    /\ ~gui.mirrorMarkersBtn => ~gui'.mirrorMarkersBtn
    /\ RightMarkers(scene') # RightMarkers(scene) =>
          \/ RightMarkers(scene) = {} /\ RightMarkers(scene') = RightNames
                /\ ~gui'.mirrorMarkersBtn /\ gui'.tab1
          \/ RightMarkers(scene) = RightNames /\ RightMarkers(scene') = {}
                /\ CanCreateSkeleton /\ ~gui'.createSkeletonBtn
                /\ RightNames \subseteq Joints(scene')

-----------------------------------------------------------------------------
(* The names of the nodes the pipeline creates *)

NoRepeats(seq) == Cardinality(Range(seq)) = Len(seq)

\* the names one side of a limb built in IK/FK mode has been given
LimbNamed(sf, limb, side) ==
    sf[limb \o "Chains"][side] \o sf[limb \o "FkChains"][side]
    \o sf[limb \o "IkChains"][side] \o sf[limb \o "FkCntrls"][side]
    \o [i \in 1..Len(sf[limb \o "FkCntrls"][side]) |->
           sf[limb \o "FkCntrls"][side][i] \o "_parent"]
    \o <<sf[limb \o "StartCntrls"][side], sf[limb \o "IkCntrls"][side],
         sf[limb \o "IkCntrls"][side] \o "_parent",
         sf[limb \o "PvCntrls"][side], sf[limb \o "Switches"][side],
         sf[limb \o "Switches"][side] \o "_reverseVis", limb \o side \o "_ik">>

\* the controllers a list of FK controllers names, each with its offset node
WithOffsets(sf, k) ==
    IF ~Has(sf, k) THEN <<>>
    ELSE sf[k] \o [i \in 1..Len(sf[k]) |-> sf[k][i] \o "_parent"]

\* every name the finished rig has been given, family after family
RigNamed(sf) ==
    <<"rig">> \o BuildOrder(sf.splineSpine)
    \o WithOffsets(sf, "rootControls")
    \o (IF sf.splineSpine THEN sf.spineControls ELSE WithOffsets(sf, "spineControls"))
    \o WithOffsets(sf, "headControls")
    \o WithOffsets(sf, "leftArmControls") \o WithOffsets(sf, "rightArmControls")
    \o WithOffsets(sf, "leftLegControls") \o WithOffsets(sf, "rightLegControls")
    \o (IF sf.isArmFKIK THEN LimbNamed(sf, "arm", "_l") \o LimbNamed(sf, "arm", "_r")
        ELSE <<>>)
    \o (IF sf.isLegFKIK THEN LimbNamed(sf, "leg", "_l") \o LimbNamed(sf, "leg", "_r")
        ELSE <<>>)

\* the joints of an IK/FK limb are named once in BuildOrder and once in its chain
Twice(sf) ==
    (IF sf.isArmFKIK THEN Len(armChain("_l")) + Len(armChain("_r")) ELSE 0)
    + (IF sf.isLegFKIK THEN Len(legChain("_l")) + Len(legChain("_r")) ELSE 0)

\* in every state: no node was created under a name in use; in the finished
\* rig the names the program has recorded are the names of nodes of the
\* scene and differ from one another
NamesDiffer ==
    call.fn = "window" =>
        /\ scene.clash = {}
        /\ Done(self, scene, 7) =>
              /\ Range(RigNamed(self)) \subseteq DOMAIN scene.kind
              /\ Cardinality(Range(RigNamed(self))) + Twice(self) = Len(RigNamed(self))

\* in the Create Skeleton step every joint takes the name of a marker the
\* step has deleted, and no marker is left
JointsReplaceMarkers ==
    (Open(2) /\ ~Open(2)') =>
        /\ Joints(scene) = {} /\ Locators(scene') = {}
        /\ Joints(scene') = Locators(scene)
        /\ Joints(scene') = Range(BuildOrder(self.splineSpine))

\* C28: for every combination of spine mode, arm mode and leg mode the
\* nodes created through the pipeline have pairwise distinct names, and a
\* joint is created only after the marker of its name has been deleted.
C28_PipelineNamesDistinct == []NamesDiffer /\ [][JointsReplaceMarkers]_vars

\* a finished rig with a spline spine and both limbs in IK/FK mode
C28_Witness ==
    /\ call.fn = "window" /\ Done(self, scene, 7)
    /\ self.splineSpine /\ self.isArmFKIK /\ self.isLegFKIK
    /\ {"rig", "spine_ik_grp", "fk_arm_r_hand_r", "ik_leg_l_knee_l",
        "ctrl_fk_leg_l_thigh_l_parent",
        "arm_l_switch", "leg_r_switch_reverseVis", "arm_r_ik"} \subseteq DOMAIN scene.kind
    /\ scene.clash = {}

-----------------------------------------------------------------------------
(* The snap buttons *)

SnapButton(limb, side) ==
    IF limb = "arm" THEN (IF side = "_l" THEN gui.lArmBtn ELSE gui.rArmBtn)
    ELSE (IF side = "_l" THEN gui.lLegBtn ELSE gui.rLegBtn)

\* the button can be clicked: it and the boxes around it are enabled
CanSnap(limb, side) == gui.tab1 /\ gui.fkIkSnappingGroupBox /\ SnapButton(limb, side)

\* the dictionaries snapArmFKIK and snapLegFKIK read
SnapReads(limb) ==
    {limb \o "FkCntrls", limb \o "IkChains", limb \o "StartCntrls", limb \o "IkCntrls",
     limb \o "PvCntrls"}

\* every entry the snap handlers read for the side is there, and names nodes
\* of the scene
SnapReady(limb, side) ==
    /\ \A k \in SnapReads(limb) : Has(self, k) /\ side \in DOMAIN self[k]
    /\ Range(self[limb \o "FkCntrls"][side]) \cup Range(self[limb \o "IkChains"][side])
       \cup {self[limb \o "StartCntrls"][side], self[limb \o "IkCntrls"][side],
             self[limb \o "PvCntrls"][side]} \subseteq Nodes(scene)
    /\ Len(self[limb \o "FkCntrls"][side]) = Len(self[limb \o "IkChains"][side])

\* in every state: the snapping box is enabled exactly when cleanup has run
\* and a limb was built in IK/FK mode; a snap button can be clicked only
\* for a limb built in IK/FK mode, and then what the handlers read is there
\* for both sides; no handler has raised
SnapOnlyWhenBuilt ==
    call.fn = "window" =>
        /\ call.err = NoErr
        /\ gui.fkIkSnappingGroupBox
              = (Done(self, scene, 7) /\ (self.isArmFKIK \/ self.isLegFKIK))
        /\ \A limb \in Limbs, side \in Sides :
              CanSnap(limb, side) =>
                  /\ BuiltFKIK(limb)
                  /\ SnapReady(limb, "_l") /\ SnapReady(limb, "_r")
        /\ \A limb \in Limbs, side \in Sides :
              (Done(self, scene, 7) /\ BuiltFKIK(limb) /\ gui.tab1) => CanSnap(limb, side)

\* in every step: the snapping box and the snap buttons change only in the
\* step of the Create Legs handler, and the record of the modes never
\* changes once cleanup has run
SnapGatesSetOnce ==
    LET gates(g) == <<g.fkIkSnappingGroupBox, g.lArmBtn, g.rArmBtn, g.lLegBtn, g.rLegBtn>>
    IN  /\ gates(gui') # gates(gui) => Open(7) /\ ~Open(7)' /\ Done(self', scene', 7)
        /\ Done(self, scene, 7) =>
              self'.isArmFKIK = self.isArmFKIK /\ self'.isLegFKIK = self.isLegFKIK

\* C29: a snap button is enabled only after cleanup and only for a limb
\* built in IK/FK mode, so whenever snapArmFKIK or snapLegFKIK runs the FK
\* controller list, the IK chain, the IK controller and the pole-vector
\* controller it reads exist for both sides; with no limb in IK/FK mode the
\* snapping box stays disabled for ever.
C29_SnapOnlyForFKIKLimbs == []SnapOnlyWhenBuilt /\ [][SnapGatesSetOnce]_vars

\* the legs were built in IK/FK mode and the arms were not: the leg buttons
\* can be clicked, the arm buttons cannot, and IK-FK is selected
C29_Witness ==
    /\ call.fn = "window" /\ Done(self, scene, 7)
    /\ self.isLegFKIK /\ ~self.isArmFKIK
    /\ CanSnap("leg", "_r") /\ ~CanSnap("arm", "_l") /\ ~CanSnap("arm", "_r")
    /\ ~Has(self, "armFkCntrls") /\ SnapReady("leg", "_l")
    /\ ~gui.fkikRadioBtn

-----------------------------------------------------------------------------
(* The spine topology *)

MarkersMade == call.fn = "window" /\ self.markers # None

\* the joints the handlers after Create Skeleton name in their calls
ReferredJoints(spline) ==
    {"root", "pelvis", "spine1", "neck"}
    \cup (IF spline THEN {"spine4", "spine9"} ELSE {"spine3"})
    \cup UNION {{"clavicle" \o sd, "upperArm" \o sd, "lowerArm" \o sd, "hand" \o sd,
                 "thigh" \o sd, "knee" \o sd, "foot" \o sd, "ball" \o sd} : sd \in Sides}

\* the base markers of a topology, by name
BaseNames(spline) ==
    Range(NamesOf(IF spline THEN defaultSplineBaseMarkers ELSE defaultBaseMarkers))

\* in every state after Create Markers: the recorded choice is the one the
\* check box shows; until the skeleton is built the base markers are those
\* of the recorded topology, afterwards the joints are, the rig joints
\* (fk_ and ik_ copies) apart; every joint a handler names exists; the spine
\* rig is the spline rig exactly for the spline topology; no handler raised
TopologyKept ==
    MarkersMade =>
        /\ call.err = NoErr
        /\ Has(self, "splineSpine") /\ self.splineSpine = gui.splineSpineCheckbox
        /\ ~SkeletonDone =>
              /\ Locators(scene) \cap BaseNames(TRUE) = BaseNames(self.splineSpine)
              /\ Joints(scene) = {}
        /\ SkeletonDone =>
              /\ Locators(scene) = {}
              /\ Joints(scene) \cap BaseNames(TRUE) = BaseNames(self.splineSpine)
              /\ Range(BuildOrder(self.splineSpine)) \subseteq Joints(scene)
              /\ ReferredJoints(self.splineSpine) \subseteq Joints(scene)
        /\ Has(self, "spineControls") =>
              /\ Exists(scene, "spine_ik") = self.splineSpine
              /\ Exists(scene, "ctrl_spine3") = ~self.splineSpine
              /\ Len(self.spineControls) = (IF self.splineSpine THEN 5 ELSE 3)

\* in every step: Create Markers records the check box as it stands, and
\* neither the record nor the check box changes afterwards
TopologyFixed ==
    /\ (Open(1) /\ ~Open(1)') => self'.splineSpine = gui.splineSpineCheckbox
    /\ ~Open(1) =>
          /\ gui'.splineSpineCheckbox = gui.splineSpineCheckbox
          /\ Has(self, "splineSpine") =>
                Has(self', "splineSpine") /\ self'.splineSpine = self.splineSpine

\* C30: the spline/plain choice recorded when Create Markers fires is the
\* one used to create the markers, to build the skeleton and to build the
\* spine rig, and it cannot change afterwards, so every joint a later stage
\* names exists in the skeleton when the stage runs.
C30_SpineTopologyFixed == []TopologyKept /\ [][TopologyFixed]_vars

\* a finished rig on the plain spine, and none of the spline joints
C30_Witness ==
    /\ MarkersMade /\ Done(self, scene, 7) /\ ~self.splineSpine
    /\ {"spine3", "ctrl_spine3"} \subseteq Nodes(scene)
    /\ ~Exists(scene, "spine4") /\ ~Exists(scene, "spine_ik")
    /\ call.err = NoErr
====
